---- MODULE Spec2Model ----
(***************************************************************************)
(* The SVE/SVE2 instruction encoders of FEXCore's ARM64 code emitter       *)
(* (CodeEmitter/SVEOps.inl).  Every public mnemonic validates its operands *)
(* and hands sub-fields to a bitfield primitive, which ORs them into an    *)
(* opcode template and appends the 32-bit word to the output stream.       *)
(*                                                                         *)
(* A 32-bit word is the set of the positions of its set bits (0..31), so   *)
(* that bit 31 is representable and `|` is set union.  Sub-fields are      *)
(* natural numbers, shifted into place with Fld.                           *)
(***************************************************************************)
EXTENDS Integers, Sequences, FiniteSets, TLC

\* ------------------------------------------------------------------------
\* uint32_t arithmetic
\* ------------------------------------------------------------------------

\* The bits of a value 0 <= n < 2^31.
Bits(n) == {i \in 0..30 : (n \div 2^i) % 2 = 1}

RECURSIVE Val(_)
\* The value of a set of bit positions below 31.
Val(s) == IF s = {} THEN 0
          ELSE LET i == CHOOSE x \in s : TRUE IN 2^i + Val(s \ {i})

\* w << k on uint32_t: bits shifted past bit 31 are lost.
Shl(w, k) == {i + k : i \in {j \in w : j + k <= 31}}

\* x >> k on a value.
Shr(x, k) == x \div 2^k

\* a & b and a | b on values.
BitAnd(a, b) == Val(Bits(a) \cap Bits(b))
BitOr(a, b) == Val(Bits(a) \cup Bits(b))

\* field << pos, as in `Instr |= field << pos`.
Fld(field, pos) == Shl(Bits(field), pos)

\* Bits hi..lo of a word, as a value.
Field(w, hi, lo) == Val({i - lo : i \in {j \in w : lo <= j /\ j <= hi}})

\* ------------------------------------------------------------------------
\* Operand types
\* ------------------------------------------------------------------------

\* enum class SubRegSize
i8Bit == 0
i16Bit == 1
i32Bit == 2
i64Bit == 3
i128Bit == 4
SubRegSize == {i8Bit, i16Bit, i32Bit, i64Bit, i128Bit}

ToUnderlying(size) == size
SubRegSizeInBits(size) == 8 * 2^size

\* Register indices: Z and V registers 0..31, predicate registers 0..15.
ZRegister == 0..31
PRegister == 0..15
p0 == 0
p7 == 7
p8 == 8

\* enum class Rotation
Rotation == [ROTATE_0 |-> 0, ROTATE_90 |-> 1, ROTATE_180 |-> 2, ROTATE_270 |-> 3]
Rotations == {Rotation.ROTATE_0, Rotation.ROTATE_90, Rotation.ROTATE_180,
              Rotation.ROTATE_270}

\* An int32_t converted to uint32_t (two's complement), as a word.
U32(i) == IF i >= 0 THEN Bits(i) ELSE (0..31) \ Bits(-i - 1)

\* AreVectorsSequential(first, rest...): each register is the one after its
\* predecessor.
AreVectorsSequential(zt) == \A i \in 1..(Len(zt) - 1) : zt[i + 1] = zt[i] + 1

\* Encode_rn, Encode_rd: a register index at bits 9:5 and 4:0.
Encode_rn(rn) == Fld(rn, 5)
Encode_rd(rd) == Bits(rd)

\* ------------------------------------------------------------------------
\* Validation and emission
\* ------------------------------------------------------------------------

\* LOGMAN_THROW_AA_FMT(cond, ...) and LOGMAN_THROW_A_FMT(cond, ...): the call
\* goes on iff cond holds; otherwise the process aborts at this point.
LOGMAN_THROW_AA_FMT(cond) == cond
LOGMAN_THROW_A_FMT(cond) == cond

\* The outcome of one encoder call: a word handed to dc32, an abort raised
\* by a failed check, or a FEX_UNREACHABLE default branch.
dc32(Instr) == [ok |-> TRUE, ur |-> FALSE, w |-> Instr]
Abort == [ok |-> FALSE, ur |-> FALSE, w |-> {}]
FEX_UNREACHABLE == [ok |-> FALSE, ur |-> TRUE, w |-> {}]

\* ------------------------------------------------------------------------
\* SVE bitwise shift by immediate (predicated)
\* ------------------------------------------------------------------------

\* A splitter that drops bit 5 of InverseShift for 64-bit elements.
SplitPredNoBit5(size, InverseShift) ==
  IF size = i8Bit THEN
    [ur |-> FALSE, tszh |-> \b00, tszl |-> \b01, imm3 |-> BitAnd(InverseShift, \b111)]
  ELSE IF size = i16Bit THEN
    [ur |-> FALSE, tszh |-> \b00,
     tszl |-> BitOr(\b10, BitAnd(Shr(InverseShift, 3), \b1)),
     imm3 |-> BitAnd(InverseShift, \b111)]
  ELSE IF size = i32Bit THEN
    [ur |-> FALSE, tszh |-> \b01,
     tszl |-> BitAnd(Shr(InverseShift, 3), \b11),
     imm3 |-> BitAnd(InverseShift, \b111)]
  ELSE
    [ur |-> FALSE, tszh |-> \b10,
     tszl |-> BitAnd(Shr(InverseShift, 3), \b11),
     imm3 |-> BitAnd(InverseShift, \b111)]

\* The tszh/tszl/imm3 split of SVEBitWiseShiftImmediatePred.
SplitPred(size, InverseShift) ==
  IF size = i8Bit THEN
    [ur |-> FALSE, tszh |-> \b00, tszl |-> \b01, imm3 |-> BitAnd(InverseShift, \b111)]
  ELSE IF size = i16Bit THEN
    [ur |-> FALSE, tszh |-> \b00,
     tszl |-> BitOr(\b10, BitAnd(Shr(InverseShift, 3), \b1)),
     imm3 |-> BitAnd(InverseShift, \b111)]
  ELSE IF size = i32Bit THEN
    [ur |-> FALSE, tszh |-> \b01,
     tszl |-> BitAnd(Shr(InverseShift, 3), \b11),
     imm3 |-> BitAnd(InverseShift, \b111)]
  ELSE IF size = i64Bit THEN
    [ur |-> FALSE, tszh |-> BitOr(\b10, BitAnd(Shr(InverseShift, 5), 1)),
     tszl |-> BitAnd(Shr(InverseShift, 3), \b11),
     imm3 |-> BitAnd(InverseShift, \b111)]
  ELSE
    [ur |-> TRUE, tszh |-> 0, tszl |-> 0, imm3 |-> 0]

SVEBitWiseShiftImmediatePred(size, opc, L, U, pg, zd, zdn, Shift) ==
  LET ElementSize == SubRegSizeInBits(size)
      IsLeftShift == L # 0
      InverseShift == IF IsLeftShift THEN Shift ELSE (2 * ElementSize) - Shift
      s == SplitPred(size, InverseShift)
      Op == Shl(Bits(\b0000010000000000100), 13)
      Instr == Op \cup Fld(s.tszh, 22) \cup Fld(opc, 18) \cup Fld(L, 17)
                  \cup Fld(U, 16) \cup Fld(pg, 10) \cup Fld(s.tszl, 8)
                  \cup Fld(s.imm3, 5) \cup Bits(zd)
  IN IF /\ LOGMAN_THROW_AA_FMT(size # i128Bit)
        /\ LOGMAN_THROW_A_FMT(zd = zdn)
        /\ LOGMAN_THROW_A_FMT(pg <= p7)
        /\ IF IsLeftShift
             THEN LOGMAN_THROW_A_FMT(Shift >= 0 /\ Shift < ElementSize)
             ELSE LOGMAN_THROW_A_FMT(Shift > 0 /\ Shift <= ElementSize)
     THEN IF s.ur THEN FEX_UNREACHABLE ELSE dc32(Instr)
     ELSE Abort

\* ------------------------------------------------------------------------
\* SVE bitwise shift by immediate (unpredicated)
\* ------------------------------------------------------------------------

\* A splitter that leaves the 16-bit size marker out of tszl.
SplitUnpredNoMarker(size, InverseShift) ==
  IF size = i8Bit THEN
    [ur |-> FALSE, tszh |-> \b00, tszl |-> \b01, imm3 |-> BitAnd(InverseShift, \b111)]
  ELSE IF size = i16Bit THEN
    [ur |-> FALSE, tszh |-> \b00,
     tszl |-> BitAnd(Shr(InverseShift, 3), \b1),
     imm3 |-> BitAnd(InverseShift, \b111)]
  ELSE IF size = i32Bit THEN
    [ur |-> FALSE, tszh |-> \b01,
     tszl |-> BitAnd(Shr(InverseShift, 3), \b11),
     imm3 |-> BitAnd(InverseShift, \b111)]
  ELSE
    [ur |-> FALSE, tszh |-> BitOr(\b10, BitAnd(Shr(InverseShift, 5), 1)),
     tszl |-> BitAnd(Shr(InverseShift, 3), \b11),
     imm3 |-> BitAnd(InverseShift, \b111)]

\* The tszh/tszl/imm3 split of SVEBitWiseShiftImmediateUnpred.
SplitUnpred(size, InverseShift) ==
  IF size = i8Bit THEN
    [ur |-> FALSE, tszh |-> \b00, tszl |-> \b01, imm3 |-> BitAnd(InverseShift, \b111)]
  ELSE IF size = i16Bit THEN
    [ur |-> FALSE, tszh |-> \b00,
     tszl |-> BitOr(\b10, BitAnd(Shr(InverseShift, 3), \b1)),
     imm3 |-> BitAnd(InverseShift, \b111)]
  ELSE IF size = i32Bit THEN
    [ur |-> FALSE, tszh |-> \b01,
     tszl |-> BitAnd(Shr(InverseShift, 3), \b11),
     imm3 |-> BitAnd(InverseShift, \b111)]
  ELSE IF size = i64Bit THEN
    [ur |-> FALSE, tszh |-> BitOr(\b10, BitAnd(Shr(InverseShift, 5), 1)),
     tszl |-> BitAnd(Shr(InverseShift, 3), \b11),
     imm3 |-> BitAnd(InverseShift, \b111)]
  ELSE
    [ur |-> TRUE, tszh |-> 0, tszl |-> 0, imm3 |-> 0]

SVEBitWiseShiftImmediateUnpred(size, opc, zd, zn, Shift) ==
  LET ElementSize == SubRegSizeInBits(size)
      IsLeftShift == opc = \b11
      InverseShift == IF IsLeftShift THEN Shift ELSE (2 * ElementSize) - Shift
      s == SplitUnpred(size, InverseShift)
      Instr == Bits(\b00000100001000001001000000000000)
                  \cup Fld(s.tszh, 22) \cup Fld(s.tszl, 19) \cup Fld(s.imm3, 16)
                  \cup Fld(opc, 10) \cup Fld(zn, 5) \cup Bits(zd)
  IN IF /\ LOGMAN_THROW_AA_FMT(size # i128Bit)
        /\ IF IsLeftShift
             THEN LOGMAN_THROW_A_FMT(Shift >= 0 /\ Shift < ElementSize)
             ELSE LOGMAN_THROW_A_FMT(Shift > 0 /\ Shift <= ElementSize)
     THEN IF s.ur THEN FEX_UNREACHABLE ELSE dc32(Instr)
     ELSE Abort

\* ------------------------------------------------------------------------
\* SVE2 bitwise shift right and accumulate
\* ------------------------------------------------------------------------

\* The tszh/tszl/imm3 split of SVE2BitwiseShiftRightAndAccumulate.
SplitAccumulate(size, InverseShift) ==
  IF size = i8Bit THEN
    [ur |-> FALSE, tszh |-> \b00, tszl |-> \b01, imm3 |-> BitAnd(InverseShift, \b111)]
  ELSE IF size = i16Bit THEN
    [ur |-> FALSE, tszh |-> \b00,
     tszl |-> BitOr(\b10, BitAnd(Shr(InverseShift, 3), \b1)),
     imm3 |-> BitAnd(InverseShift, \b111)]
  ELSE IF size = i32Bit THEN
    [ur |-> FALSE, tszh |-> \b01,
     tszl |-> BitAnd(Shr(InverseShift, 3), \b11),
     imm3 |-> BitAnd(InverseShift, \b111)]
  ELSE IF size = i64Bit THEN
    [ur |-> FALSE, tszh |-> BitOr(\b10, BitAnd(Shr(InverseShift, 5), 1)),
     tszl |-> BitAnd(Shr(InverseShift, 3), \b11),
     imm3 |-> BitAnd(InverseShift, \b111)]
  ELSE
    [ur |-> TRUE, tszh |-> 0, tszl |-> 0, imm3 |-> 0]

SVE2BitwiseShiftRightAndAccumulate(size, opc, zda, zn, shift) ==
  LET ElementSize == SubRegSizeInBits(size)
      InverseShift == (2 * ElementSize) - shift
      s == SplitAccumulate(size, InverseShift)
      Instr == Bits(\b01000101000000001110000000000000)
                  \cup Fld(s.tszh, 22) \cup Fld(s.tszl, 19) \cup Fld(s.imm3, 16)
                  \cup Fld(opc, 10) \cup Fld(zn, 5) \cup Bits(zda)
  IN IF /\ LOGMAN_THROW_A_FMT(size # i128Bit)
        /\ LOGMAN_THROW_A_FMT(shift > 0 /\ shift <= ElementSize)
     THEN IF s.ur THEN FEX_UNREACHABLE ELSE dc32(Instr)
     ELSE Abort

\* ------------------------------------------------------------------------
\* SVE2 bitwise shift and insert
\* ------------------------------------------------------------------------

\* The tszh/tszl/imm3 split of SVE2BitwiseShiftAndInsert.
SplitInsert(size, InverseShift) ==
  IF size = i8Bit THEN
    [ur |-> FALSE, tszh |-> \b00, tszl |-> \b01, imm3 |-> BitAnd(InverseShift, \b111)]
  ELSE IF size = i16Bit THEN
    [ur |-> FALSE, tszh |-> \b00,
     tszl |-> BitOr(\b10, BitAnd(Shr(InverseShift, 3), \b1)),
     imm3 |-> BitAnd(InverseShift, \b111)]
  ELSE IF size = i32Bit THEN
    [ur |-> FALSE, tszh |-> \b01,
     tszl |-> BitAnd(Shr(InverseShift, 3), \b11),
     imm3 |-> BitAnd(InverseShift, \b111)]
  ELSE IF size = i64Bit THEN
    [ur |-> FALSE, tszh |-> BitOr(\b10, BitAnd(Shr(InverseShift, 5), 1)),
     tszl |-> BitAnd(Shr(InverseShift, 3), \b11),
     imm3 |-> BitAnd(InverseShift, \b111)]
  ELSE
    [ur |-> TRUE, tszh |-> 0, tszl |-> 0, imm3 |-> 0]

\* A shift-and-insert that lets a right shift of 0 through.
ShiftAndInsertFromZero(size, opc, zd, zn, shift) ==
  LET ElementSize == SubRegSizeInBits(size)
      IsLeftShift == opc # 0
      InverseShift == IF IsLeftShift THEN shift ELSE (2 * ElementSize) - shift
      s == SplitInsert(size, InverseShift)
      Instr == Bits(\b01000101000000001111000000000000)
                  \cup Fld(s.tszh, 22) \cup Fld(s.tszl, 19) \cup Fld(s.imm3, 16)
                  \cup Fld(opc, 10) \cup Fld(zn, 5) \cup Bits(zd)
  IN IF /\ LOGMAN_THROW_A_FMT(size # i128Bit)
        /\ IF IsLeftShift
             THEN LOGMAN_THROW_A_FMT(shift >= 0 /\ shift < ElementSize)
             ELSE LOGMAN_THROW_A_FMT(shift >= 0 /\ shift <= ElementSize)
     THEN IF s.ur THEN FEX_UNREACHABLE ELSE dc32(Instr)
     ELSE Abort

SVE2BitwiseShiftAndInsert(size, opc, zd, zn, shift) ==
  LET ElementSize == SubRegSizeInBits(size)
      IsLeftShift == opc # 0
      InverseShift == IF IsLeftShift THEN shift ELSE (2 * ElementSize) - shift
      s == SplitInsert(size, InverseShift)
      Instr == Bits(\b01000101000000001111000000000000)
                  \cup Fld(s.tszh, 22) \cup Fld(s.tszl, 19) \cup Fld(s.imm3, 16)
                  \cup Fld(opc, 10) \cup Fld(zn, 5) \cup Bits(zd)
  IN IF /\ LOGMAN_THROW_A_FMT(size # i128Bit)
        /\ IF IsLeftShift
             THEN LOGMAN_THROW_A_FMT(shift >= 0 /\ shift < ElementSize)
             ELSE LOGMAN_THROW_A_FMT(shift > 0 /\ shift <= ElementSize)
     THEN IF s.ur THEN FEX_UNREACHABLE ELSE dc32(Instr)
     ELSE Abort

\* ------------------------------------------------------------------------
\* SVE2 bitwise shift left long
\* ------------------------------------------------------------------------

\* A shift left long that marks every size from bit 19 upwards, the 64-bit
\* one included.
ShiftLeftLongMarkFrom19(size, opc, zd, zn, shift) ==
  LET Underlying == ToUnderlying(size)
      ElementSize == SubRegSizeInBits(Underlying - 1)
      Instr == Bits(\b01000101000000001010000000000000)
                  \cup Fld(shift, 16) \cup Fld(opc, 10) \cup Fld(zn, 5) \cup Bits(zd)
                  \cup Shl(Fld(1, 19), Underlying - 1)
  IN IF /\ LOGMAN_THROW_A_FMT(size # i8Bit /\ size # i128Bit)
        /\ LOGMAN_THROW_A_FMT(shift >= 0 /\ shift < ElementSize)
     THEN dc32(Instr)
     ELSE Abort

SVE2BitwiseShiftLeftLong(size, opc, zd, zn, shift) ==
  LET Underlying == ToUnderlying(size)
      ElementSize == SubRegSizeInBits(Underlying - 1)
      Instr == Bits(\b01000101000000001010000000000000)
                  \cup Fld(shift, 16) \cup Fld(opc, 10) \cup Fld(zn, 5) \cup Bits(zd)
                  \cup (IF size = i64Bit THEN Fld(1, 22)
                        ELSE Shl(Fld(1, 19), Underlying - 1))
  IN IF /\ LOGMAN_THROW_A_FMT(size # i8Bit /\ size # i128Bit)
        /\ LOGMAN_THROW_A_FMT(shift >= 0 /\ shift < ElementSize)
     THEN dc32(Instr)
     ELSE Abort

\* ------------------------------------------------------------------------
\* SVE2 bitwise shift right narrow
\* ------------------------------------------------------------------------

\* The per-size shift check and tszh/tszl/imm3 split of
\* SVE2BitwiseShiftRightNarrow; InverseShift is only read once the check of
\* its branch has passed.
SplitNarrow(size, shift, InverseShift) ==
  IF size = i8Bit THEN
    IF LOGMAN_THROW_AA_FMT(shift > 0 /\ shift <= 8)
    THEN [ok |-> TRUE, ur |-> FALSE, tszh |-> 0, tszl |-> \b01,
          imm3 |-> BitAnd(InverseShift, \b111)]
    ELSE [ok |-> FALSE, ur |-> FALSE, tszh |-> 0, tszl |-> 0, imm3 |-> 0]
  ELSE IF size = i16Bit THEN
    IF LOGMAN_THROW_AA_FMT(shift > 0 /\ shift <= 16)
    THEN [ok |-> TRUE, ur |-> FALSE, tszh |-> 0,
          tszl |-> BitOr(\b10, BitAnd(Shr(InverseShift, 3), \b1)),
          imm3 |-> BitAnd(InverseShift, \b111)]
    ELSE [ok |-> FALSE, ur |-> FALSE, tszh |-> 0, tszl |-> 0, imm3 |-> 0]
  ELSE IF size = i32Bit THEN
    IF LOGMAN_THROW_AA_FMT(shift > 0 /\ shift <= 32)
    THEN [ok |-> TRUE, ur |-> FALSE, tszh |-> 1,
          tszl |-> BitAnd(Shr(InverseShift, 3), \b11),
          imm3 |-> BitAnd(InverseShift, \b111)]
    ELSE [ok |-> FALSE, ur |-> FALSE, tszh |-> 0, tszl |-> 0, imm3 |-> 0]
  ELSE
    [ok |-> FALSE, ur |-> TRUE, tszh |-> 0, tszl |-> 0, imm3 |-> 0]

SVE2BitwiseShiftRightNarrow(size, shift, opc, U, R, T, zn, zd) ==
  LET InverseShift == (2 * SubRegSizeInBits(size)) - shift
      s == SplitNarrow(size, shift, InverseShift)
      Op == Shl(Bits(\b010001010010000000), 14)
      Instr == Op \cup Fld(s.tszh, 22) \cup Fld(s.tszl, 19) \cup Fld(s.imm3, 16)
                  \cup Fld(opc, 13) \cup Fld(U, 12) \cup Fld(R, 11) \cup Fld(T, 10)
                  \cup Fld(zn, 5) \cup Bits(zd)
  IN IF LOGMAN_THROW_AA_FMT(size # i128Bit /\ size # i64Bit)
     THEN IF s.ur THEN FEX_UNREACHABLE
          ELSE IF s.ok THEN dc32(Instr) ELSE Abort
     ELSE Abort

\* ------------------------------------------------------------------------
\* SVE integer add/subtract vectors (unpredicated)
\* ------------------------------------------------------------------------

\* An add/subtract primitive with the zm and zn fields exchanged.
AddSubUnpredicatedSwapped(Op, opc, size, zm, zn, zd) ==
  LET Instr == Op \cup Fld(ToUnderlying(size), 22) \cup Fld(zn, 16)
                  \cup Fld(opc, 10) \cup Fld(zm, 5) \cup Bits(zd)
  IN IF LOGMAN_THROW_AA_FMT(size # i128Bit) THEN dc32(Instr) ELSE Abort

SVEIntegerAddSubUnpredicated(Op, opc, size, zm, zn, zd) ==
  LET Instr == Op \cup Fld(ToUnderlying(size), 22) \cup Fld(zm, 16)
                  \cup Fld(opc, 10) \cup Fld(zn, 5) \cup Bits(zd)
  IN IF LOGMAN_THROW_AA_FMT(size # i128Bit) THEN dc32(Instr) ELSE Abort

\* ------------------------------------------------------------------------
\* SVE broadcast indexed element
\* ------------------------------------------------------------------------

SVEDup(Op, imm2, tsz, zn, zd) ==
  dc32(Op \cup Fld(imm2, 22) \cup Fld(tsz, 16) \cup Encode_rn(zn) \cup Encode_rd(zd))

\* A dup whose 16-bit branch has the index limit of the 8-bit branch.
DupLimitCopied(size, zd, zn, Index) ==
  LET Op == Shl(Bits(\b0000010100100000001000), 10)
  IN IF size = i8Bit THEN
       IF LOGMAN_THROW_AA_FMT(Index < 64)
       THEN SVEDup(Op, Shr(Index, 4),
                   BitOr(\b00001, Val(Shl(Bits(BitAnd(Index, \b1111)), 1))), zn, zd)
       ELSE Abort
     ELSE IF size = i16Bit THEN
       IF LOGMAN_THROW_AA_FMT(Index < 64)
       THEN SVEDup(Op, Shr(Index, 3),
                   BitOr(\b00010, Val(Shl(Bits(BitAnd(Index, \b111)), 2))), zn, zd)
       ELSE Abort
     ELSE IF size = i32Bit THEN
       IF LOGMAN_THROW_AA_FMT(Index < 16)
       THEN SVEDup(Op, Shr(Index, 2),
                   BitOr(\b00100, Val(Shl(Bits(BitAnd(Index, \b11)), 3))), zn, zd)
       ELSE Abort
     ELSE IF size = i64Bit THEN
       IF LOGMAN_THROW_AA_FMT(Index < 8)
       THEN SVEDup(Op, Shr(Index, 1),
                   BitOr(\b01000, Val(Shl(Bits(BitAnd(Index, \b1)), 4))), zn, zd)
       ELSE Abort
     ELSE IF size = i128Bit THEN
       IF LOGMAN_THROW_AA_FMT(Index < 4)
       THEN SVEDup(Op, Index, \b10000, zn, zd)
       ELSE Abort
     ELSE SVEDup(Op, 0, 0, zn, zd)

\* void dup(size, zd, zn, Index)
dup(size, zd, zn, Index) ==
  LET Op == Shl(Bits(\b0000010100100000001000), 10)
  IN IF size = i8Bit THEN
       IF LOGMAN_THROW_AA_FMT(Index < 64)
       THEN SVEDup(Op, Shr(Index, 4),
                   BitOr(\b00001, Val(Shl(Bits(BitAnd(Index, \b1111)), 1))), zn, zd)
       ELSE Abort
     ELSE IF size = i16Bit THEN
       IF LOGMAN_THROW_AA_FMT(Index < 32)
       THEN SVEDup(Op, Shr(Index, 3),
                   BitOr(\b00010, Val(Shl(Bits(BitAnd(Index, \b111)), 2))), zn, zd)
       ELSE Abort
     ELSE IF size = i32Bit THEN
       IF LOGMAN_THROW_AA_FMT(Index < 16)
       THEN SVEDup(Op, Shr(Index, 2),
                   BitOr(\b00100, Val(Shl(Bits(BitAnd(Index, \b11)), 3))), zn, zd)
       ELSE Abort
     ELSE IF size = i64Bit THEN
       IF LOGMAN_THROW_AA_FMT(Index < 8)
       THEN SVEDup(Op, Shr(Index, 1),
                   BitOr(\b01000, Val(Shl(Bits(BitAnd(Index, \b1)), 4))), zn, zd)
       ELSE Abort
     ELSE IF size = i128Bit THEN
       IF LOGMAN_THROW_AA_FMT(Index < 4)
       THEN SVEDup(Op, Index, \b10000, zn, zd)
       ELSE Abort
     ELSE SVEDup(Op, 0, 0, zn, zd)

\* ------------------------------------------------------------------------
\* SVE floating-point complex add, SVE2 complex integer add
\* ------------------------------------------------------------------------

\* An fcadd that puts the rotation itself into the word.
fcaddRawRotation(size, zd, pv, zn, zm, rot) ==
  LET Op == Bits(\b01100100000000001000000000000000)
              \cup Fld(ToUnderlying(size), 22) \cup Fld(rot, 16)
              \cup Fld(pv, 10) \cup Fld(zm, 5) \cup Bits(zd)
  IN IF /\ LOGMAN_THROW_AA_FMT(size = i16Bit \/ size = i32Bit \/ size = i64Bit)
        /\ LOGMAN_THROW_A_FMT(pv <= p7)
        /\ LOGMAN_THROW_AA_FMT(rot = Rotation.ROTATE_90 \/ rot = Rotation.ROTATE_270)
        /\ LOGMAN_THROW_A_FMT(zd = zn)
     THEN dc32(Op)
     ELSE Abort

\* void fcadd(size, zd, pv, zn, zm, rot)
fcadd(size, zd, pv, zn, zm, rot) ==
  LET ConvertedRotation == IF rot = Rotation.ROTATE_90 THEN 0 ELSE 1
      Op == Bits(\b01100100000000001000000000000000)
              \cup Fld(ToUnderlying(size), 22) \cup Fld(ConvertedRotation, 16)
              \cup Fld(pv, 10) \cup Fld(zm, 5) \cup Bits(zd)
  IN IF /\ LOGMAN_THROW_AA_FMT(size = i16Bit \/ size = i32Bit \/ size = i64Bit)
        /\ LOGMAN_THROW_A_FMT(pv <= p7)
        /\ LOGMAN_THROW_AA_FMT(rot = Rotation.ROTATE_90 \/ rot = Rotation.ROTATE_270)
        /\ LOGMAN_THROW_A_FMT(zd = zn)
     THEN dc32(Op)
     ELSE Abort

SVE2ComplexIntAdd(size, opc, rot, zd, zn, zm) ==
  LET SanitizedRot == IF rot = Rotation.ROTATE_90 THEN 0 ELSE 1
      Instr == Bits(\b01000101000000001101100000000000)
                 \cup Fld(ToUnderlying(size), 22) \cup Fld(opc, 16)
                 \cup Fld(SanitizedRot, 10) \cup Fld(zm, 5) \cup Bits(zd)
  IN IF /\ LOGMAN_THROW_A_FMT(size # i128Bit)
        /\ LOGMAN_THROW_A_FMT(zd = zn)
        /\ LOGMAN_THROW_A_FMT(rot = Rotation.ROTATE_90 \/ rot = Rotation.ROTATE_270)
     THEN dc32(Instr)
     ELSE Abort

\* ------------------------------------------------------------------------
\* SVE load/store multiple structures (scalar plus immediate)
\* ------------------------------------------------------------------------

\* A structured load/store primitive that leaves imm4 unmasked.
ContiguousMultipleStructuresUnmasked(Op, msz, opc, imm4, zt, pg, rn) ==
  dc32(Op \cup Fld(msz, 23) \cup Fld(opc, 21)
          \cup Shl(U32(imm4), 16)
          \cup Fld(pg, 10) \cup Encode_rn(rn) \cup Bits(zt))

SVEContiguousMultipleStructures(Op, msz, opc, imm4, zt, pg, rn) ==
  dc32(Op \cup Fld(msz, 23) \cup Fld(opc, 21)
          \cup Shl(U32(imm4) \cap Bits(\hF), 16)
          \cup Fld(pg, 10) \cup Encode_rn(rn) \cup Bits(zt))

\* A structured load/store that checks its first two registers only.
MultipleStructuresFirstTwo(Op, msz, N, zt, pg, rn, Imm) ==
  LET lim == <<<<0, 0>>, <<-16, 14>>, <<-24, 21>>, <<-32, 28>>>>[N]
      opc == <<0, \b01, \b10, \b11>>[N]
  IN IF /\ LOGMAN_THROW_AA_FMT(Imm >= lim[1] /\ Imm <= lim[2] /\ (Imm % N) = 0)
        /\ LOGMAN_THROW_A_FMT(AreVectorsSequential(SubSeq(zt, 1, 2)))
     THEN SVEContiguousMultipleStructures(Op, msz, opc, Imm \div N, zt[1], pg, rn)
     ELSE Abort

\* ld2b .. ld4d and st2b .. st4d (zt1, .., ztN, pg, rn, Imm): the N-register
\* mnemonics (N = 2, 3, 4) take Imm in -16..14, -24..21, -32..28, a multiple
\* of N, and pass opc = 0b01, 0b10, 0b11 and Imm / N.
MultipleStructures(Op, msz, N, zt, pg, rn, Imm) ==
  LET lim == <<<<0, 0>>, <<-16, 14>>, <<-24, 21>>, <<-32, 28>>>>[N]
      opc == <<0, \b01, \b10, \b11>>[N]
  IN IF /\ LOGMAN_THROW_AA_FMT(Imm >= lim[1] /\ Imm <= lim[2] /\ (Imm % N) = 0)
        /\ LOGMAN_THROW_A_FMT(AreVectorsSequential(zt))
     THEN SVEContiguousMultipleStructures(Op, msz, opc, Imm \div N, zt[1], pg, rn)
     ELSE Abort

\* ------------------------------------------------------------------------
\* SVE integer arithmetic, predicated
\* ------------------------------------------------------------------------

\* A multiply-add that takes any governing predicate.
MultiplyAddSubAnyPredicate(op, opc, size, zd, pg, zn, zm) ==
  LET Instr == op \cup Fld(ToUnderlying(size), 22) \cup Fld(opc, 13)
                  \cup Fld(zm, 16) \cup Fld(pg, 10) \cup Fld(zn, 5) \cup Bits(zd)
  IN IF LOGMAN_THROW_AA_FMT(size # i128Bit) THEN dc32(Instr) ELSE Abort

SVEIntegerMultiplyAddSubPredicated(op, opc, size, zd, pg, zn, zm) ==
  LET Instr == op \cup Fld(ToUnderlying(size), 22) \cup Fld(opc, 13)
                  \cup Fld(zm, 16) \cup Fld(pg, 10) \cup Fld(zn, 5) \cup Bits(zd)
  IN IF /\ LOGMAN_THROW_AA_FMT(size # i128Bit)
        /\ LOGMAN_THROW_A_FMT(pg <= p7)
     THEN dc32(Instr)
     ELSE Abort

\* An add/sub that takes zd and zn naming different registers.
AddSubVectorsUnaliased(op, opc, size, zd, pg, zn, zm) ==
  LET Instr == op \cup Fld(ToUnderlying(size), 22) \cup Fld(opc, 16)
                  \cup Fld(pg, 10) \cup Fld(zm, 5) \cup Bits(zd)
  IN IF LOGMAN_THROW_A_FMT(pg <= p7) THEN dc32(Instr) ELSE Abort

SVEAddSubVectorsPredicated(op, opc, size, zd, pg, zn, zm) ==
  LET Instr == op \cup Fld(ToUnderlying(size), 22) \cup Fld(opc, 16)
                  \cup Fld(pg, 10) \cup Fld(zm, 5) \cup Bits(zd)
  IN IF /\ LOGMAN_THROW_A_FMT(zd = zn)
        /\ LOGMAN_THROW_A_FMT(pg <= p7)
     THEN dc32(Instr)
     ELSE Abort

SVEIntegerMulDivVectorsPredicated(op, opc, size, zd, pg, zn, zm) ==
  LET Instr == op \cup Fld(ToUnderlying(size), 22) \cup Fld(opc, 16)
                  \cup Fld(pg, 10) \cup Fld(zm, 5) \cup Bits(zd)
  IN IF /\ LOGMAN_THROW_A_FMT(zd = zn)
        /\ LOGMAN_THROW_A_FMT(pg <= p7)
     THEN dc32(Instr)
     ELSE Abort

SVEIntegerMinMaxDifferencePredicated(opc, U, size, pg, zm, zd) ==
  LET Op == Shl(Bits(\b0000010000001000000), 13)
  IN dc32(Op \cup Fld(ToUnderlying(size), 22) \cup Fld(opc, 17) \cup Fld(U, 16)
             \cup Fld(pg, 10) \cup Fld(zm, 5) \cup Bits(zd))

SVEBitwiseLogicalPredicated(Op, opc, size, pg, zm, zd) ==
  dc32(Op \cup Fld(ToUnderlying(size), 22) \cup Fld(opc, 16)
          \cup Fld(pg, 10) \cup Fld(zm, 5) \cup Bits(zd))

SVEConstructivePrefixPredicated(Op, opc, M, size, pg, zn, zd) ==
  dc32(Op \cup Fld(ToUnderlying(size), 22) \cup Fld(opc, 17) \cup Fld(M, 16)
          \cup Fld(pg, 10) \cup Encode_rn(zn) \cup Encode_rd(zd))

SVEIntegerUnaryPredicated(Op, opc, size, pg, zn, zd) ==
  dc32(Op \cup Fld(ToUnderlying(size), 22) \cup Fld(opc, 16)
          \cup Fld(pg, 10) \cup Fld(zn, 5) \cup Bits(zd))

SVEIntegerReductionOperation(op, opc, size, vd, pg, zn) ==
  LET Instr == op \cup Fld(ToUnderlying(size), 22) \cup Fld(opc, 16)
                  \cup Fld(pg, 10) \cup Fld(zn, 5) \cup Bits(vd)
  IN IF /\ LOGMAN_THROW_AA_FMT(size # i128Bit)
        /\ LOGMAN_THROW_A_FMT(pg <= p7)
     THEN dc32(Instr)
     ELSE Abort

SVEBitwiseShiftbyVector(R, L, U, size, pg, zd, zn, zm) ==
  LET Instr == Bits(\b00000100000100001000000000000000)
                 \cup Fld(ToUnderlying(size), 22) \cup Fld(R, 18) \cup Fld(L, 17)
                 \cup Fld(U, 16) \cup Fld(pg, 10) \cup Fld(zm, 5) \cup Bits(zd)
  IN IF /\ LOGMAN_THROW_AA_FMT(size # i128Bit)
        /\ LOGMAN_THROW_A_FMT(zd = zn)
        /\ LOGMAN_THROW_A_FMT(pg <= p7)
     THEN dc32(Instr)
     ELSE Abort

SVEBitwiseShiftByWideElementPredicated(size, opc, zd, pg, zn, zm) ==
  LET Instr == Bits(\b00000100000110001000000000000000)
                 \cup Fld(ToUnderlying(size), 22) \cup Fld(opc, 16)
                 \cup Fld(pg, 10) \cup Fld(zm, 5) \cup Bits(zd)
  IN IF /\ LOGMAN_THROW_A_FMT(size # i64Bit /\ size # i128Bit)
        /\ LOGMAN_THROW_A_FMT(zd = zn)
        /\ LOGMAN_THROW_A_FMT(pg <= p7)
     THEN dc32(Instr)
     ELSE Abort

SVE2IntegerSaturatingAddSub(size, opc, zd, pg, zn, zm) ==
  LET Instr == Bits(\b01000100000110001000000000000000)
                 \cup Fld(ToUnderlying(size), 22) \cup Fld(opc, 16)
                 \cup Fld(pg, 10) \cup Fld(zm, 5) \cup Bits(zd)
  IN IF /\ LOGMAN_THROW_A_FMT(size # i128Bit)
        /\ LOGMAN_THROW_A_FMT(zd = zn)
        /\ LOGMAN_THROW_A_FMT(pg <= p7)
     THEN dc32(Instr)
     ELSE Abort

SVE2IntegerHalvingPredicated(R, S, U, size, pg, zd, zn, zm) ==
  LET Instr == Bits(\b01000100000100001000000000000000)
                 \cup Fld(ToUnderlying(size), 22) \cup Fld(R, 18) \cup Fld(S, 17)
                 \cup Fld(U, 16) \cup Fld(pg, 10) \cup Fld(zm, 5) \cup Bits(zd)
  IN IF /\ LOGMAN_THROW_AA_FMT(size # i128Bit)
        /\ LOGMAN_THROW_A_FMT(zd = zn)
        /\ LOGMAN_THROW_A_FMT(pg <= p7)
     THEN dc32(Instr)
     ELSE Abort

SVEIntegerPairwiseArithmetic(opc, U, size, pg, zd, zn, zm) ==
  LET Instr == Bits(\b01000100000100001010000000000000)
                 \cup Fld(ToUnderlying(size), 22) \cup Fld(opc, 17) \cup Fld(U, 16)
                 \cup Fld(pg, 10) \cup Fld(zm, 5) \cup Bits(zd)
  IN IF /\ LOGMAN_THROW_AA_FMT(size # i128Bit)
        /\ LOGMAN_THROW_A_FMT(zd = zn)
        /\ LOGMAN_THROW_A_FMT(pg <= p7)
     THEN dc32(Instr)
     ELSE Abort

\* ------------------------------------------------------------------------
\* SVE floating-point arithmetic, reductions and compares
\* ------------------------------------------------------------------------

SVEFloatPairwiseArithmetic(opc, size, pg, zd, zn, zm) ==
  LET Instr == Bits(\b01100100000100001000000000000000)
                 \cup Fld(ToUnderlying(size), 22) \cup Fld(opc, 16)
                 \cup Fld(pg, 10) \cup Fld(zm, 5) \cup Bits(zd)
  IN IF /\ LOGMAN_THROW_A_FMT(zd = zn)
        /\ LOGMAN_THROW_A_FMT(size = i16Bit \/ size = i32Bit \/ size = i64Bit)
        /\ LOGMAN_THROW_A_FMT(pg <= p7)
     THEN dc32(Instr)
     ELSE Abort

SVEFloatArithmeticPredicated(opc, size, pg, zd, zn, zm) ==
  LET Instr == Bits(\b01100101000000001000000000000000)
                 \cup Fld(ToUnderlying(size), 22) \cup Fld(opc, 16)
                 \cup Fld(pg, 10) \cup Fld(zm, 5) \cup Bits(zd)
  IN IF /\ LOGMAN_THROW_A_FMT(zd = zn)
        /\ LOGMAN_THROW_A_FMT(size = i16Bit \/ size = i32Bit \/ size = i64Bit)
        /\ LOGMAN_THROW_A_FMT(pg <= p7)
     THEN dc32(Instr)
     ELSE Abort

SVEFPRecursiveReduction(op, opc, size, vd, pg, zn) ==
  LET Instr == op \cup Fld(ToUnderlying(size), 22) \cup Fld(opc, 16)
                  \cup Fld(pg, 10) \cup Fld(zn, 5) \cup Bits(vd)
  IN IF /\ LOGMAN_THROW_AA_FMT(size = i16Bit \/ size = i32Bit \/ size = i64Bit)
        /\ LOGMAN_THROW_A_FMT(pg <= p7)
     THEN dc32(Instr)
     ELSE Abort

SVEFPSerialReductionPredicated(opc, size, vd, pg, vn, zm) ==
  LET Instr == Bits(\b01100101000110000010000000000000)
                 \cup Fld(ToUnderlying(size), 22) \cup Fld(opc, 16)
                 \cup Fld(pg, 10) \cup Fld(zm, 5) \cup Bits(vd)
  IN IF /\ LOGMAN_THROW_AA_FMT(size = i16Bit \/ size = i32Bit \/ size = i64Bit)
        /\ LOGMAN_THROW_A_FMT(pg <= p7)
        /\ LOGMAN_THROW_A_FMT(vd = vn)
     THEN dc32(Instr)
     ELSE Abort

SVEFloatCompareVector(op, o2, o3, size, zm, pg, zn, pd) ==
  LET Instr == Bits(\b01100101000000000100000000000000)
                 \cup Fld(ToUnderlying(size), 22) \cup Fld(zm, 16) \cup Fld(op, 15)
                 \cup Fld(o2, 13) \cup Fld(pg, 10) \cup Fld(zn, 5)
                 \cup Fld(o3, 4) \cup Bits(pd)
  IN IF /\ LOGMAN_THROW_AA_FMT(size # i128Bit)
        /\ LOGMAN_THROW_AA_FMT(size # i8Bit)
        /\ LOGMAN_THROW_A_FMT(pg <= p7)
     THEN dc32(Instr)
     ELSE Abort

SVEFPCompareWithZero(eqlt, ne, size, pd, pg, zn) ==
  LET Instr == Bits(\b01100101000100000010000000000000)
                 \cup Fld(ToUnderlying(size), 22) \cup Fld(eqlt, 16)
                 \cup Fld(pg, 10) \cup Fld(zn, 5) \cup Fld(ne, 4) \cup Bits(pd)
  IN IF /\ LOGMAN_THROW_AA_FMT(size = i16Bit \/ size = i32Bit \/ size = i64Bit)
        /\ LOGMAN_THROW_A_FMT(pg <= p7)
     THEN dc32(Instr)
     ELSE Abort

\* void fcmla(size, zda, pv, zn, zm, rot), the vector form
fcmla(size, zda, pv, zn, zm, rot) ==
  LET Op == Bits(\b01100100000000000000000000000000)
              \cup Fld(ToUnderlying(size), 22) \cup Fld(zm, 16)
              \cup Fld(ToUnderlying(rot), 13) \cup Fld(pv, 10)
              \cup Fld(zn, 5) \cup Bits(zda)
  IN IF /\ LOGMAN_THROW_AA_FMT(size = i16Bit \/ size = i32Bit \/ size = i64Bit)
        /\ LOGMAN_THROW_A_FMT(pv <= p7)
     THEN dc32(Op)
     ELSE Abort

\* ------------------------------------------------------------------------
\* SVE integer compares, character match, histogram
\* ------------------------------------------------------------------------

\* A vector compare that keeps one bit of o2.
IntegerCompareVectorOneBitO2(op, o2, ne, size, zm, pg, zn, pd) ==
  LET Op == Shl(Bits(\b0010010000000000000), 13)
      Instr == Op \cup Fld(ToUnderlying(size), 22) \cup Fld(zm, 16)
                  \cup Fld(op, 15) \cup Fld(BitAnd(o2, 1), 13) \cup Fld(pg, 10)
                  \cup Fld(zn, 5) \cup Fld(ne, 4) \cup Bits(pd)
  IN IF /\ LOGMAN_THROW_A_FMT(size # i128Bit)
        /\ LOGMAN_THROW_A_FMT(pg <= p7)
     THEN dc32(Instr)
     ELSE Abort

SVEIntegerCompareVector(op, o2, ne, size, zm, pg, zn, pd) ==
  LET Op == Shl(Bits(\b0010010000000000000), 13)
      Instr == Op \cup Fld(ToUnderlying(size), 22) \cup Fld(zm, 16)
                  \cup Fld(op, 15) \cup Fld(o2, 13) \cup Fld(pg, 10)
                  \cup Fld(zn, 5) \cup Fld(ne, 4) \cup Bits(pd)
  IN IF /\ LOGMAN_THROW_A_FMT(size # i128Bit)
        /\ LOGMAN_THROW_A_FMT(pg <= p7)
     THEN dc32(Instr)
     ELSE Abort

SVEIntegerCompareVectorWide(op, o2, ne, size, pd, pg, zn, zm) ==
  IF LOGMAN_THROW_A_FMT(size # i64Bit)
  THEN SVEIntegerCompareVector(op, o2, ne, size, zm, pg, zn, pd)
  ELSE Abort

SVEIntegerCompareImm(lt, ne, imm7, size, pg, zn, pd) ==
  LET Op == Shl(Bits(\b00100100001000000000), 12)
  IN dc32(Op \cup Fld(ToUnderlying(size), 22) \cup Fld(imm7, 14) \cup Fld(lt, 13)
             \cup Fld(pg, 10) \cup Fld(zn, 5) \cup Fld(ne, 4) \cup Bits(pd))

\* imm5 arrives as the two's-complement word of the signed immediate.
SVEIntegerCompareSignedImm(op, o2, ne, imm5, size, pg, zn, pd) ==
  LET Op == Shl(Bits(\b0010010100000000000), 13)
  IN dc32(Op \cup Fld(ToUnderlying(size), 22)
             \cup Shl(imm5 \cap Bits(\b11111), 16)
             \cup Fld(op, 15) \cup Fld(o2, 13) \cup Fld(pg, 10)
             \cup Fld(zn, 5) \cup Fld(ne, 4) \cup Bits(pd))

SVECharacterMatch(op, opc, size, pd, pg, zn, zm) ==
  LET Instr == op \cup Fld(ToUnderlying(size), 22) \cup Fld(opc, 4)
                  \cup Fld(zm, 16) \cup Fld(pg, 10) \cup Fld(zn, 5) \cup Bits(pd)
  IN IF /\ LOGMAN_THROW_AA_FMT(size = i8Bit \/ size = i16Bit)
        /\ LOGMAN_THROW_A_FMT(pg <= p7)
     THEN dc32(Instr)
     ELSE Abort

\* void histcnt(size, zd, pv, zn, zm)
histcnt(size, zd, pv, zn, zm) ==
  LET Op == Bits(\b01000101001000001100000000000000)
              \cup Fld(ToUnderlying(size), 22) \cup Fld(zm, 16)
              \cup Fld(pv, 10) \cup Fld(zn, 5) \cup Bits(zd)
  IN IF /\ LOGMAN_THROW_AA_FMT(size = i32Bit \/ size = i64Bit)
        /\ LOGMAN_THROW_A_FMT(pv <= p7)
     THEN dc32(Op)
     ELSE Abort

\* ------------------------------------------------------------------------
\* SVE2 bitwise ternary, permutes, propagate break, predicate misc
\* ------------------------------------------------------------------------

SVE2BitwiseTernary(opc, o2, zm, zk, zdn) ==
  LET Op == Shl(Bits(\b000001000010000000111), 11)
  IN dc32(Op \cup Fld(opc, 22) \cup Fld(zm, 16) \cup Fld(o2, 10)
             \cup Fld(zk, 5) \cup Bits(zdn))

SVEPermuteVector(op0, zd, zm, Imm) ==
  LET Op == Shl(Bits(\b0000010100100000000), 13)
  IN dc32(Op \cup Fld(op0, 22) \cup Fld(Shr(Imm, 3), 16)
             \cup Fld(BitAnd(Imm, \b111), 10) \cup Fld(zm, 5) \cup Bits(zd))

SVEPermuteVectorPredicated(opc1, opc2, size, zd, pg, zn) ==
  LET Instr == Bits(\b00000101001000001000000000000000)
                 \cup Fld(ToUnderlying(size), 22) \cup Fld(opc1, 16)
                 \cup Fld(opc2, 13) \cup Fld(pg, 10) \cup Fld(zn, 5) \cup Bits(zd)
  IN IF /\ LOGMAN_THROW_A_FMT(size # i128Bit)
        /\ LOGMAN_THROW_A_FMT(pg <= p7)
     THEN dc32(Instr)
     ELSE Abort

SVEPropagateBreak(opc, op2, op3, pd, pg, pn, pm) ==
  dc32(Bits(\b00100101000000000000000000000000)
         \cup Fld(opc, 20) \cup Fld(op2, 14) \cup Fld(op3, 4) \cup Fld(pm, 16)
         \cup Fld(pg, 10) \cup Fld(pn, 5) \cup Bits(pd))

\* op2 carries op1 above it: [op1:op2].
SVEPredicateMisc(op0, op2, op3, size, pd) ==
  LET Instr == Bits(\b00100101000100001100000000000000)
                 \cup Fld(ToUnderlying(size), 22) \cup Fld(op0, 16)
                 \cup Fld(op2, 9) \cup Fld(op3, 5) \cup Bits(pd)
  IN IF LOGMAN_THROW_A_FMT(size # i128Bit) THEN dc32(Instr) ELSE Abort

\* ------------------------------------------------------------------------
\* SVE contiguous load/store
\* ------------------------------------------------------------------------

Encode_rm(rm) == Fld(rm, 16)

\* The addressing modes of an SVEMemOperand.
Type ==
  {"TYPE_SCALAR_SCALAR", "TYPE_SCALAR_IMM", "TYPE_SCALAR_VECTOR",
   "TYPE_VECTOR_IMM"}

\* A memory operand: the mode tag, the base register and the member of the
\* union its mode reads.
SVEMemOperand(MemType, rn, rm, Imm) ==
  [MemType |-> MemType, rn |-> rn, rm |-> rm, Imm |-> Imm]

SVEContiguousLoadImm(Op, dtype, Imm, pg, rn, zt) ==
  dc32(Op \cup Fld(dtype, 21) \cup Shl(U32(Imm) \cap Bits(\hF), 16)
          \cup Fld(pg, 10) \cup Encode_rn(rn) \cup Bits(zt))

SVEContiguousLoadStore(Op, dtype, rm, pg, rn, zt) ==
  dc32(Op \cup Fld(dtype, 21) \cup Encode_rm(rm) \cup Fld(pg, 10)
          \cup Encode_rn(rn) \cup Bits(zt))

\* dtype | ConvertedSize on uint32_t.
DtypeOr(dtype, ConvertedSize) == Val(Bits(dtype) \cup Bits(ConvertedSize))

\* ld1b .. ld1d and st1b .. st1d (zt, pg, rn, Imm), the scalar plus immediate
\* forms.  The sizes a static_assert turns down do not compile.
ContiguousScalarImm(m, size, zt, pg, rn, Imm) ==
  LET Load == Shl(Bits(\b1010010000000000101), 13)
      Store == Shl(Bits(\b1110010000000000111), 13)
      Op == IF m \in {"st1b", "st1h", "st1w", "st1d"} THEN Store ELSE Load
      dtype ==
        CASE m \in {"ld1b", "st1b"} -> DtypeOr(\b0000, ToUnderlying(size))
          [] m = "ld1sw" -> \b0100
          [] m \in {"ld1h", "st1h"} -> DtypeOr(\b0100, ToUnderlying(size))
          [] m = "ld1sh" ->
               DtypeOr(\b1000, CASE size = i32Bit -> 1 [] size = i64Bit -> 0)
          [] m = "ld1w" ->
               DtypeOr(\b1010, CASE size = i32Bit -> 1 [] size = i64Bit -> 0)
          [] m = "ld1sb" ->
               DtypeOr(\b1100, CASE size = i16Bit -> \b10
                                 [] size = i32Bit -> \b01
                                 [] size = i64Bit -> \b00)
          [] m = "st1w" ->
               DtypeOr(\b1010, CASE size = i32Bit -> 0 [] size = i64Bit -> 1)
          [] m \in {"ld1d", "st1d"} -> \b1111
  IN IF LOGMAN_THROW_AA_FMT(Imm >= -8 /\ Imm <= 7)
     THEN SVEContiguousLoadImm(Op, dtype, Imm, pg, rn, zt)
     ELSE Abort

\* ld1b .. ld1d and st1b .. st1d (zt, pg, rn, rm), the scalar plus scalar
\* forms.
ContiguousScalarScalar(m, size, zt, pg, rn, rm) ==
  LET Load == Shl(Bits(\b1010010000000000010), 13)
      Store == Shl(Bits(\b1110010000000000010), 13)
      Op == IF m \in {"st1b", "st1h", "st1w", "st1d"} THEN Store ELSE Load
      dtype ==
        CASE m \in {"ld1b", "st1b"} -> DtypeOr(\b0000, ToUnderlying(size))
          [] m = "ld1sw" -> \b0100
          [] m \in {"ld1h", "st1h"} -> DtypeOr(\b0100, ToUnderlying(size))
          [] m = "ld1sh" ->
               DtypeOr(\b1000, CASE size = i32Bit -> 1 [] size = i64Bit -> 0)
          [] m \in {"ld1w", "st1w"} ->
               DtypeOr(\b1010, CASE size = i32Bit -> 0 [] size = i64Bit -> 1)
          [] m = "ld1sb" ->
               DtypeOr(\b1100, CASE size = i16Bit -> \b10
                                 [] size = i32Bit -> \b01
                                 [] size = i64Bit -> \b00)
          [] m \in {"ld1d", "st1d"} -> \b1111
  IN SVEContiguousLoadStore(Op, dtype, rm, pg, rn, zt)

\* A mode that is not implemented makes no call to an encoding primitive:
\* past its check, which never holds, the form would return with nothing
\* appended.
NotImplemented == Abort

\* A memory-operand form that hands a scalar plus immediate operand to the
\* scalar plus scalar form, the immediate standing for rm.
ContiguousMemOperandScalarOnly(m, size, zt, pg, Src) ==
  IF Src.MemType \in {"TYPE_SCALAR_SCALAR", "TYPE_SCALAR_IMM"}
  THEN ContiguousScalarScalar(m, size, zt, pg, Src.rn, Src.Imm % 32)
  ELSE Abort

\* A memory-operand form that encodes the base register for the two modes
\* that are not implemented.
ContiguousMemOperandAllModes(m, size, zt, pg, Src) ==
  IF Src.MemType = "TYPE_SCALAR_SCALAR"
  THEN ContiguousScalarScalar(m, size, zt, pg, Src.rn, Src.rm)
  ELSE ContiguousScalarImm(m, size, zt, pg, Src.rn, Src.Imm)

\* ld1b .. ld1d and st1b .. st1d (zt, pg, Src), the SVEMemOperand forms.
ContiguousMemOperand(m, size, zt, pg, Src) ==
  IF Src.MemType = "TYPE_SCALAR_SCALAR"
  THEN ContiguousScalarScalar(m, size, zt, pg, Src.rn, Src.rm)
  ELSE IF Src.MemType = "TYPE_SCALAR_IMM"
  THEN ContiguousScalarImm(m, size, zt, pg, Src.rn, Src.Imm)
  ELSE IF Src.MemType = "TYPE_SCALAR_VECTOR"
  THEN (IF LOGMAN_THROW_A_FMT(FALSE) THEN NotImplemented ELSE Abort)
  ELSE IF Src.MemType = "TYPE_VECTOR_IMM"
  THEN (IF LOGMAN_THROW_A_FMT(FALSE) THEN NotImplemented ELSE Abort)
  ELSE FEX_UNREACHABLE

\* ------------------------------------------------------------------------
\* SVE broadcast, select, logical operations, conversions, extract narrow
\* ------------------------------------------------------------------------

SVEPermuteUnpredicated(size, opc, zdn, zm) ==
  LET Instr == Bits(\b00000101001000000011100000000000)
                 \cup Fld(ToUnderlying(size), 22) \cup Fld(opc, 16)
                 \cup Fld(zm, 5) \cup Bits(zdn)
  IN IF LOGMAN_THROW_A_FMT(size # i128Bit) THEN dc32(Instr) ELSE Abort

SVEBroadcastImm(opc, sh, imm, size, zd) ==
  LET Op == Shl(Bits(\b0010010100111000110), 13)
  IN dc32(Op \cup Fld(ToUnderlying(size), 22) \cup Fld(opc, 17)
             \cup Fld(sh, 13) \cup Shl(U32(imm) \cap Bits(\hFF), 5)
             \cup Bits(zd))

\* A dup_imm that takes any Value.
dup_immAnyValue(size, zd, Value, LSL8) ==
  IF /\ LOGMAN_THROW_AA_FMT(size # i128Bit)
     /\ (size = i8Bit => LOGMAN_THROW_AA_FMT(LSL8 = FALSE))
  THEN SVEBroadcastImm(\b00, IF LSL8 THEN 1 ELSE 0, Value, size, zd)
  ELSE Abort

dup_imm(size, zd, Value, LSL8) ==
  IF /\ LOGMAN_THROW_AA_FMT(size # i128Bit)
     /\ LOGMAN_THROW_AA_FMT(Value >= -128 /\ Value <= 127)
     /\ (size = i8Bit => LOGMAN_THROW_AA_FMT(LSL8 = FALSE))
  THEN SVEBroadcastImm(\b00, IF LSL8 THEN 1 ELSE 0, Value, size, zd)
  ELSE Abort

SVEBroadcastFloatImm(opc, o2, imm, size, zd) ==
  LET Op == Shl(Bits(\b0010010100111001110), 13)
  IN dc32(Op \cup Fld(ToUnderlying(size), 22) \cup Fld(opc, 17)
             \cup Fld(o2, 13) \cup Fld(imm, 5) \cup Bits(zd))

\* Floating-point values are counted in eighths.  The 8-bit immediates of
\* 0.125, 0.5, 1.0, 2.0, 31.0 and -1.0; a value outside the table, such as
\* 0.0 or 32.0, has none.  A value of the table has the same immediate at
\* every precision.
FP8 ==
  [v \in {1, 4, 8, 16, 248, -8} |->
     CASE v = 1 -> \h40 [] v = 4 -> \h60 [] v = 8 -> \h70 [] v = 16 -> \h00
       [] v = 248 -> \h3F [] v = -8 -> \hF0]

IsImmFP(Value) == Value \in DOMAIN FP8
FPToImm8(Value) == FP8[Value]

\* An fdup without the check of the element size.
fdupAnySize(size, zd, Value) ==
  IF size \in {i16Bit, i32Bit, i64Bit}
  THEN IF LOGMAN_THROW_A_FMT(IsImmFP(Value))
       THEN SVEBroadcastFloatImm(\b00, 0, FPToImm8(Value), size, zd)
       ELSE Abort
  ELSE FEX_UNREACHABLE

fdup(size, zd, Value) ==
  IF LOGMAN_THROW_AA_FMT(size = i16Bit \/ size = i32Bit \/ size = i64Bit)
  THEN IF size = i16Bit
       THEN IF LOGMAN_THROW_A_FMT(IsImmFP(Value))
            THEN SVEBroadcastFloatImm(\b00, 0, FPToImm8(Value), size, zd)
            ELSE Abort
       ELSE IF size = i32Bit
       THEN IF LOGMAN_THROW_A_FMT(IsImmFP(Value))
            THEN SVEBroadcastFloatImm(\b00, 0, FPToImm8(Value), size, zd)
            ELSE Abort
       ELSE IF size = i64Bit
       THEN IF LOGMAN_THROW_A_FMT(IsImmFP(Value))
            THEN SVEBroadcastFloatImm(\b00, 0, FPToImm8(Value), size, zd)
            ELSE Abort
       ELSE FEX_UNREACHABLE
  ELSE Abort

SVESel(Op, size, zm, pv, zn, zd) ==
  dc32(Op \cup Fld(ToUnderlying(size), 22) \cup Fld(zm, 16) \cup Fld(pv, 10)
          \cup Encode_rn(zn) \cup Encode_rd(zd))

SVEPredicateLogical(Op, op, S, o2, o3, pm, pg, pn, pd) ==
  dc32(Op \cup Fld(op, 23) \cup Fld(S, 22) \cup Fld(pm, 16) \cup Fld(pg, 10)
          \cup Fld(o2, 9) \cup Fld(pn, 5) \cup Fld(o3, 4) \cup Bits(pd))

SVEBitwiseLogicalUnpredicated(Op, opc, zm, zn, zd) ==
  dc32(Op \cup Fld(opc, 22) \cup Fld(zm, 16) \cup Fld(zn, 5) \cup Bits(zd))

\* A conversion primitive that leaves opc2 out of the word.
FloatConvertOpcOnly(Op, opc, opc2, U, pg, zn, zd) ==
  dc32(Op \cup Fld(opc, 22) \cup Fld(U, 16)
          \cup Fld(pg, 10) \cup Fld(zn, 5) \cup Bits(zd))

SVEFloatConvertToInt(Op, opc, opc2, U, pg, zn, zd) ==
  dc32(Op \cup Fld(opc, 22) \cup Fld(opc2, 17) \cup Fld(U, 16)
          \cup Fld(pg, 10) \cup Fld(zn, 5) \cup Bits(zd))

\* scvtf (U = 0) and ucvtf (U = 1) (zd, dstsize, pg, zn, srcsize): the two
\* bodies differ in U alone.
IntToFloat(U, zd, dstsize, pg, zn, srcsize) ==
  LET Op == Shl(Bits(\b0110010100010000101), 13)
      opc1 ==
        IF srcsize = i16Bit THEN \b01
        ELSE IF srcsize = i32Bit
        THEN (CASE dstsize = i64Bit -> \b11 [] dstsize = i32Bit -> \b10
                [] dstsize = i16Bit -> \b01 [] OTHER -> \b00)
        ELSE (CASE dstsize = i64Bit -> \b11 [] dstsize = i32Bit -> \b11
                [] dstsize = i16Bit -> \b01 [] OTHER -> \b00)
      opc2 ==
        IF srcsize = i16Bit THEN \b01
        ELSE IF srcsize = i32Bit
        THEN (CASE dstsize = i64Bit -> \b00 [] dstsize = i32Bit -> \b10
                [] dstsize = i16Bit -> \b10 [] OTHER -> \b00)
        ELSE (CASE dstsize = i64Bit -> \b11 [] dstsize = i32Bit -> \b10
                [] dstsize = i16Bit -> \b11 [] OTHER -> \b00)
  IN IF /\ LOGMAN_THROW_AA_FMT(dstsize \in {i64Bit, i32Bit, i16Bit})
        /\ LOGMAN_THROW_AA_FMT(srcsize \in {i64Bit, i32Bit, i16Bit})
     THEN IF srcsize = i16Bit
          THEN IF LOGMAN_THROW_AA_FMT(dstsize = i16Bit)
               THEN SVEFloatConvertToInt(Op, opc1, opc2, U, pg, zn, zd)
               ELSE Abort
          ELSE IF srcsize = i32Bit \/ srcsize = i64Bit
          THEN SVEFloatConvertToInt(Op, opc1, opc2, U, pg, zn, zd)
          ELSE FEX_UNREACHABLE
     ELSE Abort

\* fcvtzs (U = 0) and fcvtzu (U = 1) (zd, dstsize, pg, zn, srcsize): the two
\* bodies differ in U alone.
FloatToInt(U, zd, dstsize, pg, zn, srcsize) ==
  LET Op == Shl(Bits(\b0110010100011000101), 13)
      opc1 ==
        IF srcsize = i16Bit THEN \b01
        ELSE IF srcsize = i32Bit
        THEN (CASE dstsize = i64Bit -> \b11 [] dstsize = i32Bit -> \b10
                [] OTHER -> \b00)
        ELSE \b11
      opc2 ==
        IF srcsize = i16Bit
        THEN (CASE dstsize = i64Bit -> \b11 [] dstsize = i32Bit -> \b10
                [] dstsize = i16Bit -> \b01 [] OTHER -> \b00)
        ELSE IF srcsize = i32Bit THEN \b10
        ELSE (CASE dstsize = i64Bit -> \b11 [] dstsize = i32Bit -> \b00
                [] OTHER -> \b00)
  IN IF /\ LOGMAN_THROW_AA_FMT(dstsize \in {i64Bit, i32Bit, i16Bit})
        /\ LOGMAN_THROW_AA_FMT(srcsize \in {i64Bit, i32Bit, i16Bit})
     THEN IF srcsize = i16Bit
          THEN SVEFloatConvertToInt(Op, opc1, opc2, U, pg, zn, zd)
          ELSE IF srcsize = i32Bit \/ srcsize = i64Bit
          THEN IF LOGMAN_THROW_AA_FMT(dstsize # i16Bit)
               THEN SVEFloatConvertToInt(Op, opc1, opc2, U, pg, zn, zd)
               ELSE Abort
          ELSE FEX_UNREACHABLE
     ELSE Abort

SVE2SaturatingExtractNarrow(size, opc, T, zn, zd) ==
  LET Op == Shl(Bits(\b0100010100100000010), 13)
      tszh == IF size = i32Bit THEN 1 ELSE 0
      tszl == CASE size = i8Bit -> \b01 [] size = i16Bit -> \b10
                [] OTHER -> \b00
      Instr == Op \cup Fld(tszh, 22) \cup Fld(tszl, 19) \cup Fld(opc, 11)
                  \cup Fld(T, 10) \cup Fld(zn, 5) \cup Bits(zd)
  IN IF LOGMAN_THROW_AA_FMT(size # i128Bit /\ size # i64Bit)
     THEN IF size = i8Bit \/ size = i16Bit \/ size = i32Bit
          THEN dc32(Instr)
          ELSE FEX_UNREACHABLE
     ELSE Abort

\* ------------------------------------------------------------------------
\* SVE index generation, unsized contiguous load, indexed fcmla
\* ------------------------------------------------------------------------

\* An index generation that leaves its immediates unmasked.
IndexGenerationUnmasked(op, size, zd, imm5, imm5b) ==
  LET Instr == Bits(\b00000100001000000100000000000000)
                 \cup Fld(op, 10) \cup Fld(ToUnderlying(size), 22)
                 \cup Shl(U32(imm5b), 16) \cup Shl(U32(imm5), 5) \cup Bits(zd)
  IN IF LOGMAN_THROW_A_FMT(size # i128Bit) THEN dc32(Instr) ELSE Abort

SVEIndexGeneration(op, size, zd, imm5, imm5b) ==
  LET Instr == Bits(\b00000100001000000100000000000000)
                 \cup Fld(op, 10) \cup Fld(ToUnderlying(size), 22)
                 \cup Shl(U32(imm5b) \cap Bits(\b11111), 16)
                 \cup Shl(U32(imm5) \cap Bits(\b11111), 5)
                 \cup Bits(zd)
  IN IF LOGMAN_THROW_A_FMT(size # i128Bit) THEN dc32(Instr) ELSE Abort

\* index (size, zd, initial, increment): each of initial and increment is an
\* immediate (i) or a register (r); op tells which.
index(m, size, zd, initial, increment) ==
  CASE m = "index_ii" ->
         IF /\ LOGMAN_THROW_A_FMT(initial >= -16 /\ initial <= 15)
            /\ LOGMAN_THROW_A_FMT(increment >= -16 /\ increment <= 15)
         THEN SVEIndexGeneration(\b00, size, zd, initial, increment)
         ELSE Abort
    [] m = "index_ri" ->
         IF LOGMAN_THROW_A_FMT(increment >= -16 /\ increment <= 15)
         THEN SVEIndexGeneration(\b01, size, zd, initial, increment)
         ELSE Abort
    [] m = "index_ir" ->
         IF LOGMAN_THROW_A_FMT(initial >= -16 /\ initial <= 15)
         THEN SVEIndexGeneration(\b10, size, zd, initial, increment)
         ELSE Abort
    [] m = "index_rr" ->
         SVEIndexGeneration(\b11, size, zd, initial, increment)

\* An unsized contiguous load that puts imm9 at bits 18:10 in one piece.
GatherAndUnsizedContiguousWhole(op0, op2, imm9, pt, rn) ==
  dc32(Shl(Bits(\b1000010000000000000), 13)
         \cup Fld(op0, 23) \cup Fld(imm9, 10) \cup Fld(op2, 13)
         \cup Fld(rn, 5) \cup Bits(pt))

SVEGatherAndUnsizedContiguous(op0, op2, imm9, pt, rn) ==
  dc32(Shl(Bits(\b1000010000000000000), 13)
         \cup Fld(op0, 23) \cup Fld(Shr(imm9, 3), 16) \cup Fld(op2, 13)
         \cup Fld(BitAnd(imm9, \b111), 10) \cup Fld(rn, 5) \cup Bits(pt))

\* ldr (pt, rn, Imm) and ldr (zt, rn, Imm); Imm & 0b1'1111'1111 is taken on
\* the two's complement of Imm.
ldr(m, t, rn, Imm) ==
  LET imm9 == Val(U32(Imm) \cap Bits(\b111111111))
  IN IF LOGMAN_THROW_AA_FMT(Imm >= -256 /\ Imm <= 255)
     THEN IF m = "ldr_p"
          THEN SVEGatherAndUnsizedContiguous(\b11, \b000, imm9, t, rn)
          ELSE SVEGatherAndUnsizedContiguous(\b11, \b010, imm9, t, rn)
     ELSE Abort

\* An indexed fcmla that puts the index at bit 19 for either precision.
fcmla_indexAt19(size, zda, zn, zm, idx, rot) ==
  LET IsHalfPrecision == size = i16Bit
      Op == Bits(\b01100100101000000001000000000000)
              \cup Fld(IF IsHalfPrecision THEN 0 ELSE 1, 22)
              \cup Fld(idx, 19)
              \cup Fld(zm, 16) \cup Fld(ToUnderlying(rot), 10)
              \cup Fld(zn, 5) \cup Bits(zda)
  IN IF /\ LOGMAN_THROW_AA_FMT(size = i16Bit \/ size = i32Bit)
        /\ IF IsHalfPrecision
           THEN LOGMAN_THROW_AA_FMT(idx <= 3) /\ LOGMAN_THROW_A_FMT(zm <= 7)
           ELSE LOGMAN_THROW_AA_FMT(idx <= 1) /\ LOGMAN_THROW_A_FMT(zm <= 15)
     THEN dc32(Op)
     ELSE Abort

\* fcmla (size, zda, zn, zm, index, rot), the indexed form.
fcmla_index(size, zda, zn, zm, idx, rot) ==
  LET IsHalfPrecision == size = i16Bit
      Op == Bits(\b01100100101000000001000000000000)
              \cup Fld(IF IsHalfPrecision THEN 0 ELSE 1, 22)
              \cup Fld(idx, 19 + (IF ~IsHalfPrecision THEN 1 ELSE 0))
              \cup Fld(zm, 16) \cup Fld(ToUnderlying(rot), 10)
              \cup Fld(zn, 5) \cup Bits(zda)
  IN IF /\ LOGMAN_THROW_AA_FMT(size = i16Bit \/ size = i32Bit)
        /\ IF IsHalfPrecision
           THEN LOGMAN_THROW_AA_FMT(idx <= 3) /\ LOGMAN_THROW_A_FMT(zm <= 7)
           ELSE LOGMAN_THROW_AA_FMT(idx <= 1) /\ LOGMAN_THROW_A_FMT(zm <= 15)
     THEN dc32(Op)
     ELSE Abort

\* ------------------------------------------------------------------------
\* The emitters
\* ------------------------------------------------------------------------

\* Two emitter instances, each with an output stream of its own.
Emitters == {1, 2}

VARIABLES
  pending,      \* per emitter: the calls its code generator has yet to make
  stream,       \* per emitter: the words appended so far
  call,         \* per emitter: the last call made (NoCall before the first)
  aborted,      \* a check failed: the process is gone
  unreachable   \* a FEX_UNREACHABLE default branch was entered

vars == <<pending, stream, call, aborted, unreachable>>


\* A call request: form f (the bitfield primitive behind the mnemonic),
\* mnemonic m, element size, Z/V register operands z, predicate operands p,
\* scalar register operands x, the immediate (shift, index, offset) and the
\* rotation.
Req(f, m, size, z, p, x, imm, rot) ==
  [f |-> f, m |-> m, size |-> size, z |-> z, p |-> p, x |-> x, imm |-> imm,
   rot |-> rot]

NoCall == Req("none", "none", 0, <<>>, <<>>, <<>>, 0, 0)

\* Emitter e is about to make a call of form f.
Calls(e, f) == pending[e] # <<>> /\ Head(pending[e]).f = f

\* Emitter e makes its next call, whose encoder yields res.
Emit(e, res) ==
  /\ ~aborted /\ ~unreachable
  /\ pending[e] # <<>>
  /\ pending' = [pending EXCEPT ![e] = Tail(@)]
  /\ call' = [call EXCEPT ![e] = Head(pending[e])]
  /\ stream' = IF res.ok THEN [stream EXCEPT ![e] = Append(@, res.w)]
               ELSE stream
  /\ aborted' = (~res.ok /\ ~res.ur)
  /\ unreachable' = res.ur

\* The state after construction, with emitter 1 about to make the call r.
InitCall(r) ==
  /\ pending = [e \in Emitters |-> IF e = 1 THEN <<r>> ELSE <<>>]
  /\ stream = [e \in Emitters |-> <<>>]
  /\ call = [e \in Emitters |-> NoCall]
  /\ aborted = FALSE
  /\ unreachable = FALSE

\* The public mnemonics.  Each action is one call by emitter e: the mnemonic
\* picks its opcode fields and delegates to its bitfield primitive.

\* asr, lsr, lsl, asrd, sqshl, uqshl, srshr, urshr, sqshlu
\* (size, zd, pg, zdn, Shift); the table gives <<opc, L, U>>.
ShiftImmPred(e) ==
  /\ Calls(e, "ShiftImmPred")
  /\ LET r == Head(pending[e])
         o == [asr    |-> <<\b00, 0, 0>>, lsr   |-> <<\b00, 0, 1>>,
               lsl    |-> <<\b00, 1, 1>>, asrd  |-> <<\b01, 0, 0>>,
               sqshl  |-> <<\b01, 1, 0>>, uqshl |-> <<\b01, 1, 1>>,
               srshr  |-> <<\b11, 0, 0>>, urshr |-> <<\b11, 0, 1>>,
               sqshlu |-> <<\b11, 1, 1>>][r.m]
     IN Emit(e, SVEBitWiseShiftImmediatePred(r.size, o[1], o[2], o[3], r.p[1],
                                             r.z[1], r.z[2], r.imm))

\* asr, lsr, lsl (size, zd, zn, shift); the table gives opc.
ShiftImmUnpred(e) ==
  /\ Calls(e, "ShiftImmUnpred")
  /\ LET r == Head(pending[e])
         opc == [asr |-> \b00, lsr |-> \b01, lsl |-> \b11][r.m]
     IN Emit(e, SVEBitWiseShiftImmediateUnpred(r.size, opc, r.z[1], r.z[2], r.imm))

\* ssra, usra, srsra, ursra (size, zda, zn, shift); the table gives opc.
ShiftRightAcc(e) ==
  /\ Calls(e, "ShiftRightAcc")
  /\ LET r == Head(pending[e])
         opc == [ssra |-> \b00, usra |-> \b01, srsra |-> \b10, ursra |-> \b11][r.m]
     IN Emit(e, SVE2BitwiseShiftRightAndAccumulate(r.size, opc, r.z[1], r.z[2],
                                                   r.imm))

\* sri, sli (size, zda, zn, shift); the table gives opc.
ShiftInsert(e) ==
  /\ Calls(e, "ShiftInsert")
  /\ LET r == Head(pending[e])
         opc == [sri |-> \b0, sli |-> \b1][r.m]
     IN Emit(e, SVE2BitwiseShiftAndInsert(r.size, opc, r.z[1], r.z[2], r.imm))

\* sshllb, sshllt, ushllb, ushllt (size, zd, zn, shift); the table gives opc.
ShiftLeftLong(e) ==
  /\ Calls(e, "ShiftLeftLong")
  /\ LET r == Head(pending[e])
         opc == [sshllb |-> \b00, sshllt |-> \b01,
                 ushllb |-> \b10, ushllt |-> \b11][r.m]
     IN Emit(e, SVE2BitwiseShiftLeftLong(r.size, opc, r.z[1], r.z[2], r.imm))

\* sqshrunb .. uqrshrnt (size, zd, zn, Shift); the table gives <<opc, U, R, T>>.
ShiftRightNarrow(e) ==
  /\ Calls(e, "ShiftRightNarrow")
  /\ LET r == Head(pending[e])
         o == [sqshrunb  |-> <<0, 0, 0, 0>>, sqshrunt  |-> <<0, 0, 0, 1>>,
               sqrshrunb |-> <<0, 0, 1, 0>>, sqrshrunt |-> <<0, 0, 1, 1>>,
               shrnb     |-> <<0, 1, 0, 0>>, shrnt     |-> <<0, 1, 0, 1>>,
               rshrnb    |-> <<0, 1, 1, 0>>, rshrnt    |-> <<0, 1, 1, 1>>,
               sqshrnb   |-> <<1, 0, 0, 0>>, sqshrnt   |-> <<1, 0, 0, 1>>,
               sqrshrnb  |-> <<1, 0, 1, 0>>, sqrshrnt  |-> <<1, 0, 1, 1>>,
               uqshrnb   |-> <<1, 1, 0, 0>>, uqshrnt   |-> <<1, 1, 0, 1>>,
               uqrshrnb  |-> <<1, 1, 1, 0>>, uqrshrnt  |-> <<1, 1, 1, 1>>][r.m]
     IN Emit(e, SVE2BitwiseShiftRightNarrow(r.size, r.imm, o[1], o[2], o[3],
                                            o[4], r.z[2], r.z[1]))

\* add, sub, sqadd, uqadd, sqsub, uqsub (size, zd, zn, zm); the table gives
\* opc.
AddSubUnpredicated(e) ==
  /\ Calls(e, "AddSubUnpredicated")
  /\ LET r == Head(pending[e])
         Op == Shl(Bits(\b0000010000100000000), 13)
         opc == [add   |-> \b000, sub   |-> \b001, sqadd |-> \b100,
                 uqadd |-> \b101, sqsub |-> \b110, uqsub |-> \b111][r.m]
     IN Emit(e, SVEIntegerAddSubUnpredicated(Op, opc, r.size, r.z[3], r.z[2],
                                             r.z[1]))

\* dup (size, zd, zn, Index)
DupIndexed(e) ==
  /\ Calls(e, "DupIndexed")
  /\ LET r == Head(pending[e])
     IN Emit(e, dup(r.size, r.z[1], r.z[2], r.imm))

\* fcadd (size, zd, pv, zn, zm, rot)
FloatComplexAdd(e) ==
  /\ Calls(e, "FloatComplexAdd")
  /\ LET r == Head(pending[e])
     IN Emit(e, fcadd(r.size, r.z[1], r.p[1], r.z[2], r.z[3], r.rot))

\* cadd, sqcadd (size, zd, zn, zm, rot); the table gives opc.
ComplexIntAdd(e) ==
  /\ Calls(e, "ComplexIntAdd")
  /\ LET r == Head(pending[e])
         opc == [cadd |-> \b0, sqcadd |-> \b1][r.m]
     IN Emit(e, SVE2ComplexIntAdd(r.size, opc, r.rot, r.z[1], r.z[2], r.z[3]))

\* ld2b .. ld4d (zt1, .., ztN, pg, rn, Imm); the table gives <<msz, N>>.
LoadStructures(e) ==
  /\ Calls(e, "LoadStructures")
  /\ LET r == Head(pending[e])
         Op == Shl(Bits(\b1010010000000000111), 13)
         o == [ld2b |-> <<\b00, 2>>, ld3b |-> <<\b00, 3>>, ld4b |-> <<\b00, 4>>,
               ld2h |-> <<\b01, 2>>, ld3h |-> <<\b01, 3>>, ld4h |-> <<\b01, 4>>,
               ld2w |-> <<\b10, 2>>, ld3w |-> <<\b10, 3>>, ld4w |-> <<\b10, 4>>,
               ld2d |-> <<\b11, 2>>, ld3d |-> <<\b11, 3>>, ld4d |-> <<\b11, 4>>][r.m]
     IN Emit(e, MultipleStructures(Op, o[1], o[2], r.z, r.p[1], r.x[1], r.imm))

\* st2b .. st4d (zt1, .., ztN, pg, rn, Imm); the table gives <<msz, N>>.
StoreStructures(e) ==
  /\ Calls(e, "StoreStructures")
  /\ LET r == Head(pending[e])
         Op == Shl(Bits(\b1110010000010000111), 13)
         o == [st2b |-> <<\b00, 2>>, st3b |-> <<\b00, 3>>, st4b |-> <<\b00, 4>>,
               st2h |-> <<\b01, 2>>, st3h |-> <<\b01, 3>>, st4h |-> <<\b01, 4>>,
               st2w |-> <<\b10, 2>>, st3w |-> <<\b10, 3>>, st4w |-> <<\b10, 4>>,
               st2d |-> <<\b11, 2>>, st3d |-> <<\b11, 3>>, st4d |-> <<\b11, 4>>][r.m]
     IN Emit(e, MultipleStructures(Op, o[1], o[2], r.z, r.p[1], r.x[1], r.imm))

\* mla, mls (size, zda, pg, zn, zm); mad, msb (size, zdn, pg, zm, za).
MultiplyAddSub(e) ==
  /\ Calls(e, "MultiplyAddSub")
  /\ LET r == Head(pending[e])
         OpA == Bits(\b00000100000000000100000000000000)
         OpM == Bits(\b00000100000000001100000000000000)
         o == [mla |-> <<OpA, \b0, r.z[2], r.z[3]>>,
               mls |-> <<OpA, \b1, r.z[2], r.z[3]>>,
               mad |-> <<OpM, \b0, r.z[3], r.z[2]>>,
               msb |-> <<OpM, \b1, r.z[3], r.z[2]>>][r.m]
     IN Emit(e, SVEIntegerMultiplyAddSubPredicated(o[1], o[2], r.size, r.z[1],
                                                   r.p[1], o[3], o[4]))

\* add, sub, subr (size, zd, pg, zn, zm); the table gives opc.
AddSubPredicated(e) ==
  /\ Calls(e, "AddSubPredicated")
  /\ LET r == Head(pending[e])
         Op == Bits(\b00000100000000000000000000000000)
         opc == [add |-> \b000, sub |-> \b001, subr |-> \b011][r.m]
     IN Emit(e, SVEAddSubVectorsPredicated(Op, opc, r.size, r.z[1], r.p[1],
                                           r.z[2], r.z[3]))

\* smax, umax, smin, umin, sabd, uabd (size, zd, pg, zdn, zm);
\* the table gives <<opc, U>>.
MinMaxDifference(e) ==
  /\ Calls(e, "MinMaxDifference")
  /\ LET r == Head(pending[e])
         o == [smax |-> <<\b00, 0>>, umax |-> <<\b00, 1>>,
               smin |-> <<\b01, 0>>, umin |-> <<\b01, 1>>,
               sabd |-> <<\b10, 0>>, uabd |-> <<\b10, 1>>][r.m]
     IN Emit(e, IF /\ LOGMAN_THROW_AA_FMT(r.size # i128Bit)
                   /\ LOGMAN_THROW_A_FMT(r.z[1] = r.z[2])
                THEN SVEIntegerMinMaxDifferencePredicated(o[1], o[2], r.size,
                                                          r.p[1], r.z[3], r.z[1])
                ELSE Abort)

\* mul, smulh, umulh, sdiv, udiv, sdivr, udivr (size, zd, pg, zn, zm);
\* the table gives <<Op, opc, element sizes taken>>.
MulDivPredicated(e) ==
  /\ Calls(e, "MulDivPredicated")
  /\ LET r == Head(pending[e])
         OpM == Bits(\b00000100000100000000000000000000)
         OpD == Bits(\b00000100000101000000000000000000)
         Wide == {i32Bit, i64Bit}
         o == [mul   |-> <<OpM, \b00, SubRegSize>>,
               smulh |-> <<OpM, \b10, SubRegSize>>,
               umulh |-> <<OpM, \b11, SubRegSize>>,
               sdiv  |-> <<OpD, \b00, Wide>>, udiv  |-> <<OpD, \b01, Wide>>,
               sdivr |-> <<OpD, \b10, Wide>>, udivr |-> <<OpD, \b11, Wide>>][r.m]
     IN Emit(e, IF LOGMAN_THROW_AA_FMT(r.size \in o[3])
                THEN SVEIntegerMulDivVectorsPredicated(o[1], o[2], r.size, r.z[1],
                                                       r.p[1], r.z[2], r.z[3])
                ELSE Abort)

\* orr, eor, and_, bic (size, zd, pg, zdn, zm); the table gives opc.
BitwiseLogicalPredicated(e) ==
  /\ Calls(e, "BitwiseLogicalPredicated")
  /\ LET r == Head(pending[e])
         Op == Shl(Bits(\b0000010000011000000), 13)
         opc == [orr |-> \b000, eor |-> \b001, and_ |-> \b010, bic |-> \b011][r.m]
     IN Emit(e, IF /\ LOGMAN_THROW_AA_FMT(r.size # i128Bit)
                   /\ LOGMAN_THROW_A_FMT(r.z[1] = r.z[2])
                THEN SVEBitwiseLogicalPredicated(Op, opc, r.size, r.p[1],
                                                 r.z[3], r.z[1])
                ELSE Abort)

\* saddv, uaddv, smaxv, umaxv, sminv, uminv, orv, eorv, andv
\* (size, vd, pg, zn); the table gives <<Op, opc, element sizes taken>>.
IntegerReduction(e) ==
  /\ Calls(e, "IntegerReduction")
  /\ LET r == Head(pending[e])
         OpA == Bits(\b00000100000000000010000000000000)
         OpM == Shl(Bits(\b0000010000001000001), 13)
         OpL == Bits(\b00000100000110000010000000000000)
         Narrow == {i8Bit, i16Bit, i32Bit}
         o == [saddv |-> <<OpA, \b00, Narrow>>, uaddv |-> <<OpA, \b01, Narrow>>,
               smaxv |-> <<OpM, \b00, SubRegSize>>,
               umaxv |-> <<OpM, \b01, SubRegSize>>,
               sminv |-> <<OpM, \b10, SubRegSize>>,
               uminv |-> <<OpM, \b11, SubRegSize>>,
               orv   |-> <<OpL, \b00, SubRegSize>>,
               eorv  |-> <<OpL, \b01, SubRegSize>>,
               andv  |-> <<OpL, \b10, SubRegSize>>][r.m]
     IN Emit(e, IF LOGMAN_THROW_A_FMT(r.size \in o[3])
                THEN SVEIntegerReductionOperation(o[1], o[2], r.size, r.z[1],
                                                  r.p[1], r.z[2])
                ELSE Abort)

\* movprfx (size, zd, pg, zn) with a zeroing or a merging predicate;
\* the table gives M.
MovprfxPredicated(e) ==
  /\ Calls(e, "MovprfxPredicated")
  /\ LET r == Head(pending[e])
         Op == Shl(Bits(\b0000010000010000001), 13)
         M == [movprfx_z |-> 0, movprfx_m |-> 1][r.m]
     IN Emit(e, IF LOGMAN_THROW_AA_FMT(r.size # i128Bit)
                THEN SVEConstructivePrefixPredicated(Op, \b00, M, r.size, r.p[1],
                                                     r.z[2], r.z[1])
                ELSE Abort)

\* asr, lsr, lsl, asrr, lsrr, lslr (size, zd, pg, zn, zm);
\* the table gives <<R, L, U>>.
ShiftByVector(e) ==
  /\ Calls(e, "ShiftByVector")
  /\ LET r == Head(pending[e])
         o == [asr  |-> <<0, 0, 0>>, lsr  |-> <<0, 0, 1>>, lsl  |-> <<0, 1, 1>>,
               asrr |-> <<1, 0, 0>>, lsrr |-> <<1, 0, 1>>,
               lslr |-> <<1, 1, 1>>][r.m]
     IN Emit(e, SVEBitwiseShiftbyVector(o[1], o[2], o[3], r.size, r.p[1],
                                        r.z[1], r.z[2], r.z[3]))

\* asr_wide, lsr_wide, lsl_wide (size, zd, pg, zn, zm); the table gives opc.
ShiftByWide(e) ==
  /\ Calls(e, "ShiftByWide")
  /\ LET r == Head(pending[e])
         opc == [asr_wide |-> \b000, lsr_wide |-> \b001, lsl_wide |-> \b011][r.m]
     IN Emit(e, SVEBitwiseShiftByWideElementPredicated(r.size, opc, r.z[1],
                                                       r.p[1], r.z[2], r.z[3]))

\* sxtb .. neg, cls .. not_ (size, zd, pg, zn);
\* the table gives <<Op, opc, element sizes taken>>.
UnaryPredicated(e) ==
  /\ Calls(e, "UnaryPredicated")
  /\ LET r == Head(pending[e])
         OpI == Shl(Bits(\b0000010000010000101), 13)
         OpB == Shl(Bits(\b0000010000011000101), 13)
         AnySize == SubRegSize \ {i128Bit}
         Fp == {i16Bit, i32Bit, i64Bit}
         o == [sxtb |-> <<OpI, \b000, {i16Bit, i32Bit, i64Bit}>>,
               uxtb |-> <<OpI, \b001, {i16Bit, i32Bit, i64Bit}>>,
               sxth |-> <<OpI, \b010, {i32Bit, i64Bit}>>,
               uxth |-> <<OpI, \b011, {i32Bit, i64Bit}>>,
               sxtw |-> <<OpI, \b100, {i64Bit}>>,
               uxtw |-> <<OpI, \b101, {i64Bit}>>,
               abs  |-> <<OpI, \b110, AnySize>>, neg  |-> <<OpI, \b111, AnySize>>,
               cls  |-> <<OpB, \b000, AnySize>>, clz  |-> <<OpB, \b001, AnySize>>,
               cnt  |-> <<OpB, \b010, AnySize>>, cnot |-> <<OpB, \b011, AnySize>>,
               fabs |-> <<OpB, \b100, Fp>>,  fneg |-> <<OpB, \b101, Fp>>,
               not_ |-> <<OpB, \b110, AnySize>>][r.m]
     IN Emit(e, IF LOGMAN_THROW_AA_FMT(r.size \in o[3])
                THEN SVEIntegerUnaryPredicated(o[1], o[2], r.size, r.p[1],
                                               r.z[2], r.z[1])
                ELSE Abort)

\* eor3, bsl, bcax, bsl1n, bsl2n, nbsl (zd, zdn, zm, zk);
\* the table gives <<opc, o2>>.
BitwiseTernary(e) ==
  /\ Calls(e, "BitwiseTernary")
  /\ LET r == Head(pending[e])
         o == [eor3  |-> <<\b00, 0>>, bsl   |-> <<\b00, 1>>,
               bcax  |-> <<\b01, 0>>, bsl1n |-> <<\b01, 1>>,
               bsl2n |-> <<\b10, 1>>, nbsl  |-> <<\b11, 1>>][r.m]
     IN Emit(e, IF LOGMAN_THROW_A_FMT(r.z[1] = r.z[2])
                THEN SVE2BitwiseTernary(o[1], o[2], r.z[3], r.z[4], r.z[1])
                ELSE Abort)

\* The predicated permutes. Each takes (size, d, pg, n) or (size, d, pg, n, zm)
\* with d and n vector or scalar registers; the table gives
\* <<opc1, opc2, element sizes taken, wrapper check, zd, zn>>.
PermutePredicated(e) ==
  /\ Calls(e, "PermutePredicated")
  /\ LET r == Head(pending[e])
         All == SubRegSize
         d == r.z[1]
         n == r.z[2]
         m == r.z[Len(r.z)]
         o == [cpy_v      |-> <<\b00000, \b0, All, TRUE, d, n>>,
               compact    |-> <<\b00001, \b0, {i64Bit, i32Bit}, TRUE, d, n>>,
               cpy_r      |-> <<\b01000, \b1, All, TRUE, d, n>>,
               splice_con |-> <<\b01101, \b0, All,
                                AreVectorsSequential(<<n, m>>), d, n>>,
               splice_des |-> <<\b01100, \b0, All, d = n, d, m>>,
               lasta_r    |-> <<\b00000, \b1, All, TRUE, d, n>>,
               lastb_r    |-> <<\b00001, \b1, All, TRUE, d, n>>,
               lasta_v    |-> <<\b00010, \b0, All, TRUE, d, n>>,
               lastb_v    |-> <<\b00011, \b0, All, TRUE, d, n>>,
               revb       |-> <<\b00100, \b0, All \ {i8Bit}, TRUE, d, n>>,
               revh       |-> <<\b00101, \b0, All \ {i8Bit, i16Bit}, TRUE, d, n>>,
               revw       |-> <<\b00110, \b0, {i64Bit}, TRUE, d, n>>,
               rbit       |-> <<\b00111, \b0, All, TRUE, d, n>>,
               clasta_z   |-> <<\b01000, \b0, All, d = n, d, m>>,
               clastb_z   |-> <<\b01001, \b0, All, d = n, d, m>>,
               clasta_v   |-> <<\b01010, \b0, All, d = n, d, m>>,
               clastb_v   |-> <<\b01011, \b0, All, d = n, d, m>>,
               clasta_r   |-> <<\b10000, \b1, All, d = n, d, m>>,
               clastb_r   |-> <<\b10001, \b1, All, d = n, d, m>>][r.m]
     IN Emit(e, IF /\ LOGMAN_THROW_AA_FMT(r.size \in o[3])
                   /\ LOGMAN_THROW_A_FMT(o[4])
                THEN SVEPermuteVectorPredicated(o[1], o[2], r.size, o[5],
                                                r.p[1], o[6])
                ELSE Abort)

\* ext, constructive (zd, zn, zn2, Imm) and destructive (zd, zdn, zm, Imm).
ExtractVector(e) ==
  /\ Calls(e, "ExtractVector")
  /\ LET r == Head(pending[e])
         o == [ext_con |-> <<1, AreVectorsSequential(<<r.z[2], r.z[3]>>), r.z[2]>>,
               ext_des |-> <<0, r.z[1] = r.z[2], r.z[3]>>][r.m]
     IN Emit(e, IF LOGMAN_THROW_A_FMT(o[2])
                THEN SVEPermuteVector(o[1], r.z[1], o[3], r.imm)
                ELSE Abort)

\* cmpeq, cmpge, cmpgt, cmphi, cmphs, cmpne (size, pd, pg, zn, zm);
\* the table gives <<op, o2, ne>>.
IntegerCompare(e) ==
  /\ Calls(e, "IntegerCompare")
  /\ LET r == Head(pending[e])
         o == [cmpeq |-> <<1, 1, 0>>, cmpge |-> <<1, 0, 0>>, cmpgt |-> <<1, 0, 1>>,
               cmphi |-> <<0, 0, 1>>, cmphs |-> <<0, 0, 0>>,
               cmpne |-> <<1, 1, 1>>][r.m]
     IN Emit(e, SVEIntegerCompareVector(o[1], o[2], o[3], r.size, r.z[2],
                                        r.p[2], r.z[1], r.p[1]))

\* cmpeq_wide .. cmpne_wide (size, pd, pg, zn, zm); the table gives
\* <<op, o2, ne>>.
IntegerCompareWide(e) ==
  /\ Calls(e, "IntegerCompareWide")
  /\ LET r == Head(pending[e])
         o == [cmpeq_wide |-> <<0, \b01, 0>>, cmpgt_wide |-> <<0, \b10, 1>>,
               cmpge_wide |-> <<0, \b10, 0>>, cmphi_wide |-> <<1, \b10, 1>>,
               cmphs_wide |-> <<1, \b10, 0>>, cmplt_wide |-> <<0, \b11, 0>>,
               cmple_wide |-> <<0, \b11, 1>>, cmplo_wide |-> <<1, \b11, 0>>,
               cmpls_wide |-> <<1, \b11, 1>>, cmpne_wide |-> <<0, \b01, 1>>][r.m]
     IN Emit(e, SVEIntegerCompareVectorWide(o[1], o[2], o[3], r.size, r.p[1],
                                            r.p[2], r.z[1], r.z[2]))

\* cmphi, cmphs, cmplo, cmpls (size, pd, pg, zn, imm); the table gives
\* <<lt, ne>>.
CompareUnsignedImm(e) ==
  /\ Calls(e, "CompareUnsignedImm")
  /\ LET r == Head(pending[e])
         o == [cmphi |-> <<0, 1>>, cmphs |-> <<0, 0>>,
               cmplo |-> <<1, 0>>, cmpls |-> <<1, 1>>][r.m]
     IN Emit(e, IF /\ LOGMAN_THROW_AA_FMT(r.size # i128Bit)
                   /\ LOGMAN_THROW_AA_FMT(r.imm < 128)
                THEN SVEIntegerCompareImm(o[1], o[2], r.imm, r.size, r.p[2],
                                          r.z[1], r.p[1])
                ELSE Abort)

\* cmpeq, cmpgt, cmpge, cmplt, cmple (size, pd, pg, zn, imm); the table gives
\* <<op, o2, ne>>.
CompareSignedImm(e) ==
  /\ Calls(e, "CompareSignedImm")
  /\ LET r == Head(pending[e])
         o == [cmpeq |-> <<1, 0, 0>>, cmpgt |-> <<0, 0, 1>>, cmpge |-> <<0, 0, 0>>,
               cmplt |-> <<0, 1, 0>>, cmple |-> <<0, 1, 1>>][r.m]
     IN Emit(e, IF /\ LOGMAN_THROW_AA_FMT(r.size # i128Bit)
                   /\ LOGMAN_THROW_AA_FMT(r.imm >= -16 /\ r.imm <= 15)
                THEN SVEIntegerCompareSignedImm(o[1], o[2], o[3], U32(r.imm),
                                                r.size, r.p[2], r.z[1], r.p[1])
                ELSE Abort)

\* fcmeq .. facgt (size, pd, pg, zn, zm); facle, faclt (size, pd, pg, zm, zn)
\* forward to facge, facgt with the vectors exchanged. The table gives
\* <<op, o2, o3, zm, zn>>.
FloatCompare(e) ==
  /\ Calls(e, "FloatCompare")
  /\ LET r == Head(pending[e])
         o == [fcmeq |-> <<0, 1, 0, r.z[2], r.z[1]>>,
               fcmgt |-> <<0, 0, 1, r.z[2], r.z[1]>>,
               fcmge |-> <<0, 0, 0, r.z[2], r.z[1]>>,
               fcmne |-> <<0, 1, 1, r.z[2], r.z[1]>>,
               fcmuo |-> <<1, 0, 0, r.z[2], r.z[1]>>,
               facge |-> <<1, 0, 1, r.z[2], r.z[1]>>,
               facgt |-> <<1, 1, 1, r.z[2], r.z[1]>>,
               facle |-> <<1, 0, 1, r.z[1], r.z[2]>>,
               faclt |-> <<1, 1, 1, r.z[1], r.z[2]>>][r.m]
     IN Emit(e, SVEFloatCompareVector(o[1], o[2], o[3], r.size, o[4], r.p[2],
                                      o[5], r.p[1]))

\* brkpa, brkpb, brkpas, brkpbs, brkn, brkns (pd, pg, pn, pm); the table
\* gives <<opc, op2, op3, wrapper check, pm>>.
PropagateBreak(e) ==
  /\ Calls(e, "PropagateBreak")
  /\ LET r == Head(pending[e])
         o == [brkpa  |-> <<\b0000, \b11, 0, TRUE, r.p[4]>>,
               brkpb  |-> <<\b0000, \b11, 1, TRUE, r.p[4]>>,
               brkpas |-> <<\b0100, \b11, 0, TRUE, r.p[4]>>,
               brkpbs |-> <<\b0100, \b11, 1, TRUE, r.p[4]>>,
               brkn   |-> <<\b0001, \b01, 0, r.p[1] = r.p[4], p8>>,
               brkns  |-> <<\b0101, \b01, 0, r.p[1] = r.p[4], p8>>][r.m]
     IN Emit(e, IF LOGMAN_THROW_A_FMT(o[4])
                THEN SVEPropagateBreak(o[1], o[2], o[3], r.p[1], r.p[2], r.p[3],
                                       o[5])
                ELSE Abort)

\* pnext (size, pd, pv, pn); pfirst (pd, pg, pn), which encodes i16Bit.
\* The table gives <<op0, op2, size>>.
PredicateMisc(e) ==
  /\ Calls(e, "PredicateMisc")
  /\ LET r == Head(pending[e])
         o == [pnext  |-> <<\b1001, \b00010, r.size>>,
               pfirst |-> <<\b1000, \b00000, i16Bit>>][r.m]
     IN Emit(e, IF LOGMAN_THROW_A_FMT(r.p[1] = r.p[3])
                THEN SVEPredicateMisc(o[1], o[2], r.p[2], o[3], r.p[1])
                ELSE Abort)

\* shadd .. uhsubr (size, zd, pg, zn, zm); the table gives <<R, S, U>>.
HalvingPredicated(e) ==
  /\ Calls(e, "HalvingPredicated")
  /\ LET r == Head(pending[e])
         o == [shadd  |-> <<0, 0, 0>>, uhadd  |-> <<0, 0, 1>>,
               shsub  |-> <<0, 1, 0>>, uhsub  |-> <<0, 1, 1>>,
               srhadd |-> <<1, 0, 0>>, urhadd |-> <<1, 0, 1>>,
               shsubr |-> <<1, 1, 0>>, uhsubr |-> <<1, 1, 1>>][r.m]
     IN Emit(e, SVE2IntegerHalvingPredicated(o[1], o[2], o[3], r.size, r.p[1],
                                             r.z[1], r.z[2], r.z[3]))

\* addp, smaxp, umaxp, sminp, uminp (size, zd, pg, zn, zm); the table gives
\* <<opc, U>>.
IntegerPairwise(e) ==
  /\ Calls(e, "IntegerPairwise")
  /\ LET r == Head(pending[e])
         o == [addp  |-> <<\b00, 1>>, smaxp |-> <<\b10, 0>>, umaxp |-> <<\b10, 1>>,
               sminp |-> <<\b11, 0>>, uminp |-> <<\b11, 1>>][r.m]
     IN Emit(e, SVEIntegerPairwiseArithmetic(o[1], o[2], r.size, r.p[1],
                                             r.z[1], r.z[2], r.z[3]))

\* sqadd .. uqsubr (size, zd, pg, zn, zm); the table gives opc.
SaturatingAddSub(e) ==
  /\ Calls(e, "SaturatingAddSub")
  /\ LET r == Head(pending[e])
         opc == [sqadd  |-> \b000, uqadd  |-> \b001, sqsub  |-> \b010,
                 uqsub  |-> \b011, suqadd |-> \b100, usqadd |-> \b101,
                 sqsubr |-> \b110, uqsubr |-> \b111][r.m]
     IN Emit(e, SVE2IntegerSaturatingAddSub(r.size, opc, r.z[1], r.p[1],
                                            r.z[2], r.z[3]))

\* fadd .. fdiv (size, zd, pg, zn, zm); ftmad (size, zd, zn, zm, imm), which
\* is governed by p0. The table gives opc.
FloatArithmeticPredicated(e) ==
  /\ Calls(e, "FloatArithmeticPredicated")
  /\ LET r == Head(pending[e])
         opc == [ftmad  |-> BitOr(\b10000, r.imm),
                 fadd   |-> \b0000, fsub   |-> \b0001, fmul  |-> \b0010,
                 fsubr  |-> \b0011, fmaxnm |-> \b0100, fminnm |-> \b0101,
                 fmax   |-> \b0110, fmin   |-> \b0111, fabd  |-> \b1000,
                 fscale |-> \b1001, fmulx  |-> \b1010, fdivr |-> \b1100,
                 fdiv   |-> \b1101][r.m]
         pg == IF r.m = "ftmad" THEN p0 ELSE r.p[1]
     IN Emit(e, IF LOGMAN_THROW_AA_FMT(r.m = "ftmad" => r.imm <= 7)
                THEN SVEFloatArithmeticPredicated(opc, r.size, pg, r.z[1],
                                                  r.z[2], r.z[3])
                ELSE Abort)

\* faddp, fmaxnmp, fminnmp, fmaxp, fminp (size, zd, pg, zn, zm); the table
\* gives opc.
FloatPairwise(e) ==
  /\ Calls(e, "FloatPairwise")
  /\ LET r == Head(pending[e])
         opc == [faddp |-> \b000, fmaxnmp |-> \b100, fminnmp |-> \b101,
                 fmaxp |-> \b110, fminp   |-> \b111][r.m]
     IN Emit(e, SVEFloatPairwiseArithmetic(opc, r.size, r.p[1], r.z[1], r.z[2],
                                           r.z[3]))

\* faddv, fmaxnmv, fminnmv, fmaxv, fminv (size, vd, pg, zn); the table gives
\* opc.
FloatReduction(e) ==
  /\ Calls(e, "FloatReduction")
  /\ LET r == Head(pending[e])
         Op == Bits(\b01100101000000000010000000000000)
         opc == [faddv |-> \b000, fmaxnmv |-> \b100, fminnmv |-> \b101,
                 fmaxv |-> \b110, fminv   |-> \b111][r.m]
     IN Emit(e, SVEFPRecursiveReduction(Op, opc, r.size, r.z[1], r.p[1], r.z[2]))

\* fadda (size, vd, pg, vn, zm)
FloatSerialReduction(e) ==
  /\ Calls(e, "FloatSerialReduction")
  /\ LET r == Head(pending[e])
     IN Emit(e, SVEFPSerialReductionPredicated(\b00, r.size, r.z[1], r.p[1],
                                               r.z[2], r.z[3]))

\* fcmge, fcmgt, fcmlt, fcmle, fcmeq, fcmne (size, pd, pg, zn) against zero;
\* the table gives <<eqlt, ne>>.
FloatCompareZero(e) ==
  /\ Calls(e, "FloatCompareZero")
  /\ LET r == Head(pending[e])
         o == [fcmge |-> <<\b00, 0>>, fcmgt |-> <<\b00, 1>>, fcmlt |-> <<\b01, 0>>,
               fcmle |-> <<\b01, 1>>, fcmeq |-> <<\b10, 0>>,
               fcmne |-> <<\b11, 0>>][r.m]
     IN Emit(e, SVEFPCompareWithZero(o[1], o[2], r.size, r.p[1], r.p[2], r.z[1]))

\* match, nmatch (size, pd, pg, zn, zm); the table gives opc.
CharacterMatch(e) ==
  /\ Calls(e, "CharacterMatch")
  /\ LET r == Head(pending[e])
         Op == Bits(\b01000101001000001000000000000000)
         opc == [match |-> 0, nmatch |-> 1][r.m]
     IN Emit(e, SVECharacterMatch(Op, opc, r.size, r.p[1], r.p[2], r.z[1],
                                  r.z[2]))

\* fcmla (size, zda, pv, zn, zm, rot)
FloatComplexMulAdd(e) ==
  /\ Calls(e, "FloatComplexMulAdd")
  /\ LET r == Head(pending[e])
     IN Emit(e, fcmla(r.size, r.z[1], r.p[1], r.z[2], r.z[3], r.rot))

\* histcnt (size, zd, pv, zn, zm)
HistogramCount(e) ==
  /\ Calls(e, "HistogramCount")
  /\ LET r == Head(pending[e])
     IN Emit(e, histcnt(r.size, r.z[1], r.p[1], r.z[2], r.z[3]))

\* ld1b .. st1d (zt, pg, rn, Imm)
ContiguousImm(e) ==
  /\ Calls(e, "ContiguousImm")
  /\ LET r == Head(pending[e])
     IN Emit(e, ContiguousScalarImm(r.m, r.size, r.z[1], r.p[1],
                                    r.x[1], r.imm))

\* ld1b .. st1d (zt, pg, rn, rm)
ContiguousScalar(e) ==
  /\ Calls(e, "ContiguousScalar")
  /\ LET r == Head(pending[e])
     IN Emit(e, ContiguousScalarScalar(r.m, r.size, r.z[1], r.p[1],
                                       r.x[1], r.x[2]))

\* ld1b .. st1d (zt, pg, Src), Src an SVEMemOperand
ContiguousMem(e) ==
  /\ Calls(e, "ContiguousMem")
  /\ LET r == Head(pending[e])
     IN Emit(e, ContiguousMemOperand(r.m, r.size, r.z[1], r.p[1], r.x[1]))

\* Emitter e makes its next call, whose encoder yields res and leaves the
\* streams as s.
EmitInto(e, res, s) ==
  /\ ~aborted /\ ~unreachable
  /\ pending[e] # <<>>
  /\ pending' = [pending EXCEPT ![e] = Tail(@)]
  /\ call' = [call EXCEPT ![e] = Head(pending[e])]
  /\ stream' = s
  /\ aborted' = (~res.ok /\ ~res.ur)
  /\ unreachable' = res.ur

\* A dup_imm that appends its word before it checks its operands.
BroadcastImmEmitFirst(e) ==
  /\ Calls(e, "BroadcastImm")
  /\ LET r == Head(pending[e])
         res == dup_imm(r.size, r.z[1], r.imm[1], r.imm[2])
         w == SVEBroadcastImm(\b00, IF r.imm[2] THEN 1 ELSE 0, r.imm[1],
                              r.size, r.z[1]).w
     IN EmitInto(e, res, [stream EXCEPT ![e] = Append(@, w)])

\* A dup_imm whose word tells whether the stream holds a word already.
BroadcastImmChained(e) ==
  /\ Calls(e, "BroadcastImm")
  /\ LET r == Head(pending[e])
         res == dup_imm(r.size, r.z[1], r.imm[1], r.imm[2])
         w == res.w \cup Fld(IF stream[e] = <<>> THEN 0 ELSE 1, 16)
     IN EmitInto(e, res, IF res.ok THEN [stream EXCEPT ![e] = Append(@, w)]
                         ELSE stream)

\* An fdup that writes its word over the last word of the stream.
BroadcastFloatImmPatch(e) ==
  /\ Calls(e, "BroadcastFloatImm")
  /\ LET r == Head(pending[e])
         res == fdup(r.size, r.z[1], r.imm)
         n == Len(stream[e])
     IN EmitInto(e, res,
                 IF ~res.ok THEN stream
                 ELSE IF n = 0 THEN [stream EXCEPT ![e] = <<res.w>>]
                 ELSE [stream EXCEPT ![e] = Append([@ EXCEPT ![n] = res.w],
                                                  res.w)])

\* An fdup that appends its word to the stream of every emitter.
BroadcastFloatImmShared(e) ==
  /\ Calls(e, "BroadcastFloatImm")
  /\ LET r == Head(pending[e])
         res == fdup(r.size, r.z[1], r.imm)
     IN EmitInto(e, res,
                 IF res.ok THEN [d \in Emitters |-> Append(stream[d], res.w)]
                 ELSE stream)

\* A scalar mov that appends a word of its own before handing over to dup.
DupScalarTwice(e) ==
  /\ Calls(e, "DupScalar")
  /\ ~aborted /\ ~unreachable
  /\ LET r == Head(pending[e])
         res == SVEPermuteUnpredicated(r.size, \b00000, r.z[1], r.x[1])
     IN /\ pending' = [pending EXCEPT ![e] = Tail(@)]
        /\ call' = [call EXCEPT ![e] = r]
        /\ stream' = IF ~res.ok THEN stream
                     ELSE IF r.m = "mov"
                     THEN [stream EXCEPT ![e] = @ \o <<res.w, res.w>>]
                     ELSE [stream EXCEPT ![e] = Append(@, res.w)]
        /\ aborted' = ~res.ok
        /\ unreachable' = FALSE

\* dup (size, zd, rn) and mov (size, zd, rn), which calls dup.
DupScalar(e) ==
  /\ Calls(e, "DupScalar")
  /\ LET r == Head(pending[e])
     IN Emit(e, SVEPermuteUnpredicated(r.size, \b00000, r.z[1], r.x[1]))

\* dup_imm (size, zd, Value, LSL8) and mov_imm, which calls dup_imm; the
\* immediate operands are <<Value, LSL8>>.
BroadcastImm(e) ==
  /\ Calls(e, "BroadcastImm")
  /\ LET r == Head(pending[e])
     IN Emit(e, dup_imm(r.size, r.z[1], r.imm[1], r.imm[2]))

\* fdup (size, zd, Value) and fmov, which calls fdup.
BroadcastFloatImm(e) ==
  /\ Calls(e, "BroadcastFloatImm")
  /\ LET r == Head(pending[e])
     IN Emit(e, fdup(r.size, r.z[1], r.imm))

\* sel (size, zd, pv, zn, zm) and mov (size, zd, pv, zn), which passes zd
\* for zm.
Select(e) ==
  /\ Calls(e, "Select")
  /\ LET r == Head(pending[e])
         Op == Shl(Bits(\b000001010010000011), 14)
         zm == IF r.m = "mov" THEN r.z[1] ELSE r.z[3]
     IN Emit(e, IF LOGMAN_THROW_AA_FMT(r.size # i128Bit)
                THEN SVESel(Op, r.size, zm, r.p[1], r.z[2], r.z[1])
                ELSE Abort)

\* and_ .. nands (pd, pg, pn, pm), mov_m, mov_z, movs_z and not_ (pd, pg, pn),
\* mov and movs (pd, pn); the table gives <<op, S, o2, o3>>.
PredicateLogical(e) ==
  /\ Calls(e, "PredicateLogical")
  /\ LET r == Head(pending[e])
         Op == Shl(Bits(\b001001010000000001), 14)
         o == [and_   |-> <<0, 0, 0, 0>>, ands  |-> <<0, 1, 0, 0>>,
               mov_m  |-> <<0, 0, 1, 1>>, mov_z |-> <<0, 0, 0, 0>>,
               movs_z |-> <<0, 1, 0, 0>>, bic   |-> <<0, 0, 0, 1>>,
               bics   |-> <<0, 1, 0, 1>>, eor   |-> <<0, 0, 1, 0>>,
               eors   |-> <<0, 1, 1, 0>>, not_  |-> <<0, 0, 1, 0>>,
               sel    |-> <<0, 0, 1, 1>>, orr   |-> <<1, 0, 0, 0>>,
               mov    |-> <<1, 0, 0, 0>>, orn   |-> <<1, 0, 0, 1>>,
               nor    |-> <<1, 0, 1, 0>>, nand  |-> <<1, 0, 1, 1>>,
               orrs   |-> <<1, 1, 0, 0>>, movs  |-> <<1, 1, 0, 0>>,
               orns   |-> <<1, 1, 0, 1>>, nors  |-> <<1, 1, 1, 0>>,
               nands  |-> <<1, 1, 1, 1>>][r.m]
         pd == r.p[1]
         pg == r.p[2]
         pn == IF r.m \in {"mov", "movs"} THEN r.p[2] ELSE r.p[3]
         pm == CASE r.m = "mov_m" -> pd
                 [] r.m \in {"mov_z", "movs_z"} -> pn
                 [] r.m = "not_" -> pg
                 [] r.m \in {"mov", "movs"} -> pn
                 [] OTHER -> r.p[4]
     IN Emit(e, SVEPredicateLogical(Op, o[1], o[2], o[3], o[4], pm, pg, pn, pd))

\* An unpredicated mov that takes the opcode of and_.
BitwiseLogicalMovAsAnd(e) ==
  /\ Calls(e, "BitwiseLogicalUnpredicated")
  /\ LET r == Head(pending[e])
         Op == Shl(Bits(\b0000010000100000001100), 10)
         opc == [and_ |-> \b00, orr |-> \b01, mov |-> \b00, eor |-> \b10,
                 bic |-> \b11][r.m]
         zm == IF r.m = "mov" THEN r.z[2] ELSE r.z[3]
     IN Emit(e, SVEBitwiseLogicalUnpredicated(Op, opc, zm, r.z[2], r.z[1]))

\* and_, orr, eor, bic (zd, zn, zm) and mov (zd, zn), which passes zn for
\* zm; the table gives opc.
BitwiseLogicalUnpredicated(e) ==
  /\ Calls(e, "BitwiseLogicalUnpredicated")
  /\ LET r == Head(pending[e])
         Op == Shl(Bits(\b0000010000100000001100), 10)
         opc == [and_ |-> \b00, orr |-> \b01, mov |-> \b01, eor |-> \b10,
                 bic |-> \b11][r.m]
         zm == IF r.m = "mov" THEN r.z[2] ELSE r.z[3]
     IN Emit(e, SVEBitwiseLogicalUnpredicated(Op, opc, zm, r.z[2], r.z[1]))

\* scvtf, ucvtf, fcvtzs, fcvtzu (zd, dstsize, pg, zn, srcsize); the request
\* carries dstsize as its size and srcsize as its immediate.
Convert(e) ==
  /\ Calls(e, "Convert")
  /\ LET r == Head(pending[e])
     IN Emit(e, CASE r.m = "scvtf" ->
                       IntToFloat(0, r.z[1], r.size, r.p[1], r.z[2], r.imm)
                  [] r.m = "ucvtf" ->
                       IntToFloat(1, r.z[1], r.size, r.p[1], r.z[2], r.imm)
                  [] r.m = "fcvtzs" ->
                       FloatToInt(0, r.z[1], r.size, r.p[1], r.z[2], r.imm)
                  [] r.m = "fcvtzu" ->
                       FloatToInt(1, r.z[1], r.size, r.p[1], r.z[2], r.imm))

\* sqxtnb, sqxtnt, uqxtnb, uqxtnt, sqxtunb, sqxtunt (size, zd, zn); the table
\* gives <<opc, T>>.
SaturatingExtractNarrow(e) ==
  /\ Calls(e, "SaturatingExtractNarrow")
  /\ LET r == Head(pending[e])
         o == [sqxtnb |-> <<\b00, 0>>, sqxtnt |-> <<\b00, 1>>,
               uqxtnb |-> <<\b01, 0>>, uqxtnt |-> <<\b01, 1>>,
               sqxtunb |-> <<\b10, 0>>, sqxtunt |-> <<\b10, 1>>][r.m]
     IN Emit(e, SVE2SaturatingExtractNarrow(r.size, o[1], o[2], r.z[2], r.z[1]))

\* index (size, zd, initial, increment): index_ii takes two immediates,
\* index_ri a register and an immediate, index_ir an immediate and a
\* register, index_rr two registers.
IndexGeneration(e) ==
  /\ Calls(e, "IndexGeneration")
  /\ LET r == Head(pending[e])
     IN Emit(e, index(r.m, r.size, r.z[1], r.imm[1], r.imm[2]))

\* ldr (pt, rn, Imm) and ldr (zt, rn, Imm).
Ldr(e) ==
  /\ Calls(e, "Ldr")
  /\ LET r == Head(pending[e])
     IN Emit(e, ldr(r.m, IF r.m = "ldr_p" THEN r.p[1] ELSE r.z[1], r.x[1],
                    r.imm))

\* fcmla (size, zda, zn, zm, index, rot).
FcmlaIndexed(e) ==
  /\ Calls(e, "FcmlaIndexed")
  /\ LET r == Head(pending[e])
     IN Emit(e, fcmla_index(r.size, r.z[1], r.z[2], r.z[3], r.imm, r.rot))

\* ------------------------------------------------------------------------
\* Operand samples
\* ------------------------------------------------------------------------

\* Shift amounts run past twice the widest element.
MaxShift == 65
Shifts == 0..MaxShift

\* <<zd, zdn>> pairs, aliased and not; the indices cover every bit of 0..31.
ZPairs == {<<0, 0>>, <<21, 21>>, <<31, 31>>, <<10, 21>>}

\* One shift-by-immediate call, of any mnemonic, size and shift amount.
InitShift ==
  \E size \in SubRegSize, sh \in Shifts :
    \/ \E m \in {"asr", "lsr", "lsl", "asrd", "sqshl", "uqshl", "srshr",
                 "urshr", "sqshlu"}, z \in ZPairs, pg \in {0, 7, 8} :
         InitCall(Req("ShiftImmPred", m, size, z, <<pg>>, <<>>, sh, 0))
    \/ \E m \in {"asr", "lsr", "lsl"}, z \in ZPairs :
         InitCall(Req("ShiftImmUnpred", m, size, z, <<>>, <<>>, sh, 0))
    \/ \E m \in {"ssra", "usra", "srsra", "ursra"}, z \in ZPairs :
         InitCall(Req("ShiftRightAcc", m, size, z, <<>>, <<>>, sh, 0))
    \/ \E m \in {"sri", "sli"}, z \in ZPairs :
         InitCall(Req("ShiftInsert", m, size, z, <<>>, <<>>, sh, 0))
    \/ \E m \in {"sshllb", "sshllt", "ushllb", "ushllt"}, z \in ZPairs :
         InitCall(Req("ShiftLeftLong", m, size, z, <<>>, <<>>, sh, 0))
    \/ \E m \in {"sqshrunb", "sqshrunt", "sqrshrunb", "sqrshrunt", "shrnb",
                 "shrnt", "rshrnb", "rshrnt", "sqshrnb", "sqshrnt",
                 "sqrshrnb", "sqrshrnt", "uqshrnb", "uqshrnt", "uqrshrnb",
                 "uqrshrnt"}, z \in ZPairs :
         InitCall(Req("ShiftRightNarrow", m, size, z, <<>>, <<>>, sh, 0))
NextShift ==
  \E e \in Emitters :
    \/ ShiftImmPred(e)
    \/ ShiftImmUnpred(e)
    \/ ShiftRightAcc(e)
    \/ ShiftInsert(e)
    \/ ShiftLeftLong(e)
    \/ ShiftRightNarrow(e)
SpecShift == InitShift /\ [][NextShift]_vars

\* ------------------------------------------------------------------------
\* Properties
\* ------------------------------------------------------------------------

\* The call emitter e made was accepted and put exactly one word on its stream.
Accepted(e) == call[e] # NoCall /\ ~aborted /\ ~unreachable /\ Len(stream[e]) = 1
\* The call emitter e made aborted and put nothing on its stream.
Rejected(e) == call[e] # NoCall /\ aborted /\ stream[e] = <<>>
\* The word of the accepted call.
Word(e) == stream[e][1]

ShiftForms ==
  {"ShiftImmPred", "ShiftImmUnpred", "ShiftRightAcc", "ShiftInsert",
   "ShiftLeftLong", "ShiftRightNarrow"}
\* The direction of a shift call.
IsLeft(c) ==
  CASE c.f = "ShiftImmPred" -> c.m \in {"lsl", "sqshl", "uqshl", "sqshlu"}
    [] c.f = "ShiftImmUnpred" -> c.m = "lsl"
    [] c.f = "ShiftInsert" -> c.m = "sli"
    [] c.f = "ShiftLeftLong" -> TRUE
    [] OTHER -> FALSE
\* The element sizes a shift mnemonic has an encoding for.
ShiftSizes(c) ==
  CASE c.f = "ShiftLeftLong" -> {i16Bit, i32Bit, i64Bit}
    [] c.f = "ShiftRightNarrow" -> {i8Bit, i16Bit, i32Bit}
    [] OTHER -> {i8Bit, i16Bit, i32Bit, i64Bit}
\* The width in bits of the elements a shift call shifts: the widening
\* shifts shift the elements of half the destination size.
ShiftWidth(c) ==
  IF c.f = "ShiftLeftLong" THEN SubRegSizeInBits(c.size) \div 2
  ELSE SubRegSizeInBits(c.size)
LegalShift(c) ==
  /\ c.size \in ShiftSizes(c)
  /\ IF IsLeft(c) THEN c.imm \in 0..(ShiftWidth(c) - 1)
     ELSE c.imm \in 1..ShiftWidth(c)
\* The other operands of a shift call are valid.
ShiftOperandsOk(c) ==
  c.f = "ShiftImmPred" => c.z[1] = c.z[2] /\ c.p[1] <= 7
\* <<tszh, tszl, imm3>> as found in the word of a shift call.
ShiftFields(c, w) ==
  IF c.f = "ShiftImmPred" THEN <<Field(w, 23, 22), Field(w, 9, 8), Field(w, 7, 5)>>
  ELSE <<Field(w, 23, 22), Field(w, 20, 19), Field(w, 18, 16)>>
\* What the splitter is documented to yield for element width S and value I.
Documented(S, I) ==
  CASE S = 8 -> <<0, 1, I % 8>>
    [] S = 16 -> <<0, 2 + ((I \div 8) % 2), I % 8>>
    [] S = 32 -> <<1, (I \div 8) % 4, I % 8>>
    [] S = 64 -> <<2 + ((I \div 32) % 2), (I \div 8) % 4, I % 8>>

\* C1: for every element size S in {8,16,32,64} and every legal shift, the
\* predicated and unpredicated shift-by-immediate encoders accept the call
\* and emit the documented (tszh, tszl, imm3) of I = 2*S - shift (right
\* shifts) or I = shift (left shifts); predicated 32-bit lsr by 17 gives
\* I = 47 and (0b01, 0b01, 0b111).
C1_ShiftSplit ==
  \A e \in Emitters :
    LET c == call[e]
        S == ShiftWidth(c)
        I == IF IsLeft(c) THEN c.imm ELSE 2 * S - c.imm
    IN (c.f \in {"ShiftImmPred", "ShiftImmUnpred"} /\ LegalShift(c)
          /\ ShiftOperandsOk(c))
       => /\ Accepted(e)
          /\ ShiftFields(c, Word(e)) = Documented(S, I)
          /\ (c.f = "ShiftImmPred" /\ c.m = "lsr" /\ c.size = i32Bit /\ c.imm = 17)
               => I = 47 /\ ShiftFields(c, Word(e)) = <<1, 1, 7>>

\* A predicated 64-bit right shift whose InverseShift has bit 5 set was encoded.
C1_Witness ==
  \E e \in Emitters :
    /\ Accepted(e)
    /\ call[e].f = "ShiftImmPred" /\ call[e].m = "lsr"
    /\ call[e].size = i64Bit /\ call[e].imm = 17
    /\ ShiftFields(call[e], Word(e)) = <<3, 1, 7>>

\* The 7-bit value tszh:tszl:imm3 of a shift word.
TszImm(c, w) ==
  LET t == ShiftFields(c, w) IN 32 * t[1] + 8 * t[2] + t[3]
\* The position of the highest set bit of a value 1..127.
HighestSetBit(v) == CHOOSE h \in 0..6 : v \div 2^h = 1
\* Decoding tszh:tszl:imm3: <<element width, shift>>.
DecodeShift(v, left) ==
  LET S == 2^HighestSetBit(v)
  IN <<S, IF left THEN v - S ELSE 2 * S - v>>

\* C2: for every element size S in {8,16,32,64}, both directions and every
\* legal shift, the value tszh:tszl:imm3 emitted by the predicated and the
\* unpredicated shift encoder decodes back to the call's own (S, shift): the
\* highest set bit selects S, and shift = value - S (left) or 2*S - value
\* (right).  The decoding reads the value and the direction only, so two
\* legal calls of one direction with the same fields are the same call.
C2_SplitRoundTrip ==
  \A e \in Emitters :
    LET c == call[e]
    IN (c.f \in {"ShiftImmPred", "ShiftImmUnpred"} /\ LegalShift(c)
          /\ ShiftOperandsOk(c))
       => /\ Accepted(e)
          /\ TszImm(c, Word(e)) \in 8..127
          /\ DecodeShift(TszImm(c, Word(e)), IsLeft(c))
               = <<SubRegSizeInBits(c.size), c.imm>>

\* An unpredicated 16-bit left shift by 9 was emitted as 0b0011001 and
\* decodes to (16, 9).
C2_Witness ==
  \E e \in Emitters :
    /\ Accepted(e)
    /\ call[e].f = "ShiftImmUnpred" /\ call[e].m = "lsl"
    /\ call[e].size = i16Bit /\ call[e].imm = 9
    /\ TszImm(call[e], Word(e)) = 25
    /\ DecodeShift(25, TRUE) = <<16, 9>>

\* A shift call with an illegal shift amount or the 128-bit size.
BadShift(c) ==
  \/ c.size = i128Bit
  \/ IsLeft(c) /\ c.imm >= ShiftWidth(c)
  \/ ~IsLeft(c) /\ (c.imm = 0 \/ c.imm > ShiftWidth(c))
\* A shift call at the boundary of the legal range.
BoundaryShift(c) ==
  /\ c.size \in ShiftSizes(c)
  /\ IF IsLeft(c) THEN c.imm = 0 ELSE c.imm = ShiftWidth(c)

\* C3: every shift-by-immediate mnemonic aborts and appends nothing for a
\* right shift of 0 or above the element width, a left shift at or above the
\* element width, or the 128-bit size; at an element size the mnemonic
\* encodes, a right shift equal to the width and a left shift of 0 are
\* accepted and encoded as the documented split.
C3_ShiftRange ==
  \A e \in Emitters :
    LET c == call[e]
        S == ShiftWidth(c)
        I == IF IsLeft(c) THEN c.imm ELSE 2 * S - c.imm
    IN c.f \in ShiftForms
       => /\ BadShift(c) => Rejected(e)
          /\ (BoundaryShift(c) /\ ShiftOperandsOk(c))
               => Accepted(e) /\ ShiftFields(c, Word(e)) = Documented(S, I)

\* sri with a shift of 0 aborted, and sri by the full width was encoded.
C3_Witness ==
  \E e \in Emitters :
    /\ call[e].f = "ShiftInsert" /\ call[e].m = "sri" /\ call[e].size = i32Bit
    /\ \/ call[e].imm = 0 /\ Rejected(e)
       \/ call[e].imm = 32 /\ Accepted(e)

\* ------------------------------------------------------------------------
\* Field layouts: add/sub, dup, complex add, structured load/store
\* ------------------------------------------------------------------------

\* Register indices that put a 0 and a 1 at every bit of the 5-bit field.
ZSamples == {0, 1, 2, 10, 21, 31}
\* Element indices run past the largest legal index.
MaxIndex == 65

\* Structure offsets run past the widest legal range.
MaxOffset == 34
\* Register groups zt1..ztN: consecutive, and broken at each position.
ZGroups(N) ==
  CASE N = 2 -> {<<0, 1>>, <<21, 22>>, <<30, 31>>, <<5, 7>>, <<10, 10>>, <<22, 21>>}
    [] N = 3 -> {<<0, 1, 2>>, <<21, 22, 23>>, <<29, 30, 31>>, <<0, 1, 3>>,
                 <<0, 2, 3>>, <<4, 5, 4>>}
    [] N = 4 -> {<<0, 1, 2, 3>>, <<28, 29, 30, 31>>, <<10, 11, 12, 14>>,
                 <<10, 11, 13, 14>>, <<10, 12, 13, 14>>, <<21, 22, 23, 10>>}
StructSizes == {"b", "h", "w", "d"}
\* The mnemonic of a structured load/store: "ld" or "st", N, and the size.
StructName(ls, N, sz) == ls \o (<<"", "2", "3", "4">>[N]) \o sz

\* One call of an unpredicated add/subtract, the indexed dup, a complex add
\* or a structured load/store.
InitEncode ==
  \/ \E m \in {"add", "sub", "sqadd", "uqadd", "sqsub", "uqsub"},
        size \in SubRegSize, zd \in ZRegister, zn \in ZSamples, zm \in ZSamples :
       InitCall(Req("AddSubUnpredicated", m, size, <<zd, zn, zm>>, <<>>, <<>>, 0, 0))
  \/ \E size \in SubRegSize, Index \in 0..MaxIndex, zd \in ZSamples, zn \in ZSamples :
       InitCall(Req("DupIndexed", "dup", size, <<zd, zn>>, <<>>, <<>>, Index, 0))
  \/ \E size \in SubRegSize, rot \in Rotations, pv \in {0, 7, 8}, z \in ZPairs,
        zm \in ZSamples :
       \/ InitCall(Req("FloatComplexAdd", "fcadd", size, <<z[1], z[2], zm>>,
                       <<pv>>, <<>>, 0, rot))
       \/ \E m \in {"cadd", "sqcadd"} :
            InitCall(Req("ComplexIntAdd", m, size, <<z[1], z[2], zm>>,
                         <<>>, <<>>, 0, rot))
  \/ \E N \in 2..4, sz \in StructSizes, pg \in {0, 7, 15}, rn \in {0, 21},
        Imm \in (-MaxOffset)..MaxOffset :
       \E zt \in ZGroups(N) :
         \/ InitCall(Req("LoadStructures", StructName("ld", N, sz), 0, zt,
                         <<pg>>, <<rn>>, Imm, 0))
         \/ InitCall(Req("StoreStructures", StructName("st", N, sz), 0, zt,
                         <<pg>>, <<rn>>, Imm, 0))
NextEncode ==
  \E e \in Emitters :
    \/ AddSubUnpredicated(e)
    \/ DupIndexed(e)
    \/ FloatComplexAdd(e)
    \/ ComplexIntAdd(e)
    \/ LoadStructures(e)
    \/ StoreStructures(e)
SpecEncode == InitEncode /\ [][NextEncode]_vars

\* The opc field documented for each unpredicated add/subtract mnemonic.
AddSubOpc(m) ==
  CASE m = "add" -> 0 [] m = "sub" -> 1 [] m = "sqadd" -> 4
    [] m = "uqadd" -> 5 [] m = "sqsub" -> 6 [] m = "uqsub" -> 7

\* C4: for every element size 8..64 (size code c = 0..3) and all zd, zn, zm,
\* the unpredicated add/sub/sqadd/uqadd/sqsub/uqsub is accepted and its word
\* is exactly 0x04200000 + c*2^22 + zm*2^16 + opc*2^10 + zn*2^5 + zd (the
\* fields do not overlap, so every other bit is the template's); 64-bit
\* add z0, z1, z2 is 0x04E20020.
C4_AddSubWord ==
  \A e \in Emitters :
    LET c == call[e]
    IN (c.f = "AddSubUnpredicated" /\ c.size \in {i8Bit, i16Bit, i32Bit, i64Bit})
       => /\ Accepted(e)
          /\ 31 \notin Word(e)
          /\ Val(Word(e)) = \h04200000 + c.size * 2^22 + c.z[3] * 2^16
                              + AddSubOpc(c.m) * 2^10 + c.z[2] * 2^5 + c.z[1]
          /\ (c.m = "add" /\ c.size = i64Bit /\ c.z = <<0, 1, 2>>)
               => Val(Word(e)) = \h04E20020

\* 64-bit add z0, z1, z2 was emitted, as 0x04E20020.
C4_Witness ==
  \E e \in Emitters :
    /\ Accepted(e)
    /\ call[e].f = "AddSubUnpredicated" /\ call[e].m = "add"
    /\ call[e].size = i64Bit /\ call[e].z = <<0, 1, 2>>
    /\ Word(e) = Bits(\h04E20020)

\* The largest element index dup takes at each size, plus one.
DupIndexLimit(size) == 2^(6 - size)
\* The position of the lowest set bit of a value 1..31.
LowestSetBit(v) == CHOOSE k \in 0..4 : v % 2^(k + 1) = 2^k

\* C5: indexed dup aborts and appends nothing when Index >= 64, 32, 16, 8, 4
\* for 8-, 16-, 32-, 64-, 128-bit elements; otherwise, with k the size code,
\* it is accepted with tsz = (1<<k) | ((Index<<(k+1)) & 0b11111) at bits 20:16
\* and imm2 = Index >> (4-k) at bits 23:22 and nothing else but the template,
\* zn and zd in the word (so tsz <= 31 and imm2 <= 3 stay inside their
\* fields); the lowest set bit of tsz gives back k and imm2:tsz >> (k+1) gives
\* back Index; 16-bit index 9 has tsz = 0b00110 and imm2 = 1.
C5_DupIndex ==
  \A e \in Emitters :
    LET c == call[e]
        k == c.size
        tsz == 2^k + ((c.imm * 2^(k + 1)) % 32)
        imm2 == c.imm \div 2^(4 - k)
    IN c.f = "DupIndexed"
       => IF c.imm >= DupIndexLimit(c.size) THEN Rejected(e)
          ELSE /\ Accepted(e)
               /\ tsz <= 31 /\ imm2 <= 3
               /\ 31 \notin Word(e)
               /\ Val(Word(e)) = \h05202000 + imm2 * 2^22 + tsz * 2^16
                                   + c.z[2] * 2^5 + c.z[1]
               /\ LowestSetBit(Field(Word(e), 20, 16)) = k
               /\ (32 * Field(Word(e), 23, 22) + Field(Word(e), 20, 16))
                    \div 2^(k + 1) = c.imm
               /\ (c.size = i16Bit /\ c.imm = 9) => tsz = 6 /\ imm2 = 1

\* dup of 16-bit element 9 was emitted with tsz = 0b00110 and imm2 = 1, and a
\* dup of 16-bit element 32 aborted.
C5_Witness ==
  \E e \in Emitters :
    /\ call[e].f = "DupIndexed" /\ call[e].size = i16Bit
    /\ \/ /\ call[e].imm = 9 /\ Accepted(e)
          /\ Field(Word(e), 20, 16) = 6 /\ Field(Word(e), 23, 22) = 1
       \/ call[e].imm = 32 /\ Rejected(e)

\* The rotation bit documented for the two legal rotations.
RotationBit(rot) == IF rot = Rotation.ROTATE_90 THEN 0 ELSE 1

\* C6: fcadd, cadd and sqcadd abort and append nothing for a rotation of 0 or
\* 180 degrees; for 90 and 270 degrees (other operands valid) the word is
\* the template and the other fields plus one rotation bit, 0 for 90 and 1
\* for 270, at bit 16 for fcadd and at bit 10 for cadd/sqcadd, so no other
\* bit depends on the rotation.
C6_ComplexAddRotation ==
  \A e \in Emitters :
    LET c == call[e]
        legal == c.rot \in {Rotation.ROTATE_90, Rotation.ROTATE_270}
    IN /\ c.f = "FloatComplexAdd"
          => /\ ~legal => Rejected(e)
             /\ (legal /\ c.size \in {i16Bit, i32Bit, i64Bit} /\ c.p[1] <= 7
                   /\ c.z[1] = c.z[2])
                  => /\ Accepted(e)
                     /\ 31 \notin Word(e)
                     /\ Val(Word(e)) = \h64008000 + c.size * 2^22
                                         + RotationBit(c.rot) * 2^16
                                         + c.p[1] * 2^10 + c.z[3] * 2^5 + c.z[1]
       /\ c.f = "ComplexIntAdd"
          => /\ ~legal => Rejected(e)
             /\ (legal /\ c.size # i128Bit /\ c.z[1] = c.z[2])
                  => /\ Accepted(e)
                     /\ 31 \notin Word(e)
                     /\ Val(Word(e)) = \h4500D800 + c.size * 2^22
                                         + (IF c.m = "sqcadd" THEN 2^16 ELSE 0)
                                         + RotationBit(c.rot) * 2^10
                                         + c.z[3] * 2^5 + c.z[1]

\* fcadd by 270 degrees was emitted with bit 16 set and bit 17 clear, and an
\* fcadd by 0 degrees aborted.
C6_Witness ==
  \E e \in Emitters :
    /\ call[e].f = "FloatComplexAdd"
    /\ \/ /\ call[e].rot = Rotation.ROTATE_270 /\ Accepted(e)
          /\ 16 \in Word(e) /\ 17 \notin Word(e)
       \/ call[e].rot = Rotation.ROTATE_0 /\ Rejected(e)

\* The operands of a structured load/store call: N, the size code and
\* whether it stores, read off the mnemonic.
StructN(c) == Len(c.z)
StructMsz(c) ==
  CHOOSE k \in 0..3 :
    \E ls \in {"ld", "st"} : c.m = StructName(ls, StructN(c), <<"b", "h", "w", "d">>[k + 1])
\* zt1..ztN occupy N consecutive register indices.
Consecutive(zt) == \A i \in 1..Len(zt) : zt[i] = zt[1] + (i - 1)
\* The offset is one the N-register form takes.
StructOffsetOk(c) ==
  c.imm \in (-8 * StructN(c))..(7 * StructN(c)) /\ c.imm % StructN(c) = 0

\* C7: every ld2/ld3/ld4 and st2/st3/st4 (b, h, w, d) aborts and appends
\* nothing when zt1..ztN are not N consecutive registers; when they are (and
\* the offset is legal) the call is accepted and the word holds zt1 alone at
\* bits 4:0, the other bits being fixed by the mnemonic, the offset, pg and
\* rn.
C7_StructRegisters ==
  \A e \in Emitters :
    LET c == call[e]
        N == StructN(c)
    IN c.f \in {"LoadStructures", "StoreStructures"}
       => /\ ~Consecutive(c.z) => Rejected(e)
          /\ (Consecutive(c.z) /\ StructOffsetOk(c))
               => /\ Accepted(e)
                  /\ Field(Word(e), 4, 0) = c.z[1]
                  /\ Field(Word(e), 9, 5) = c.x[1]
                  /\ Field(Word(e), 12, 10) = c.p[1] % 8
                  /\ Field(Word(e), 15, 13) = 7
                  /\ Field(Word(e), 31, 16) =
                       (IF c.f = "LoadStructures" THEN \hA400 ELSE \hE410)
                         + StructMsz(c) * 2^7 + (N - 1) * 2^5
                         + ((c.imm \div N) % 16)

\* ld3h {z0, z1, z3} aborted, and st4w {z28..z31} was emitted with zt1 = 28.
C7_Witness ==
  \E e \in Emitters :
    \/ /\ call[e].m = "ld3h" /\ call[e].z = <<0, 1, 3>> /\ call[e].imm = 0
       /\ Rejected(e)
    \/ /\ call[e].m = "st4w" /\ call[e].z = <<28, 29, 30, 31>> /\ Accepted(e)
       /\ Field(Word(e), 4, 0) = 28

\* ------------------------------------------------------------------------
\* Operand checks: aliased destinations and governing predicates
\* ------------------------------------------------------------------------

\* <<destination, aliased source>> pairs, the same register and different ones.
ZAlias == {<<0, 0>>, <<21, 21>>, <<31, 31>>, <<10, 21>>, <<31, 0>>}
ZThird == {1, 22}
ZZ == ZAlias
ZZZ == {<<a[1], a[2], m>> : a \in ZAlias, m \in ZThird}
ZZZZ == {<<a[1], a[2], m, k>> : a \in ZAlias, m \in ZThird, k \in {2, 31}}

\* Governing predicates on both sides of p7.
PSamples == {0, 7, 8, 15}
PG == {<<pg>> : pg \in PSamples}
PdPg == {<<pd, pg>> : pd \in {0, 15}, pg \in PSamples}
PdPgPn == {<<a[1], pg, a[2]>> : a \in {<<0, 0>>, <<15, 15>>, <<5, 10>>},
                                pg \in PSamples}
PdPgPnPm == {<<a[1], pg, pn, a[2]>> : a \in {<<0, 0>>, <<15, 15>>, <<5, 10>>},
                                      pg \in PSamples, pn \in {0, 15}}

\* One call of form f: a mnemonic of M at an element size of S on the vector
\* registers z of Z and the predicate registers p of P, with an immediate of I
\* and a rotation of R.
OperandCall(f, M, S, Z, P, I, R) ==
  \E m \in M, size \in S, z \in Z, p \in P, imm \in I, rot \in R :
    InitCall(Req(f, m, size, z, p, <<>>, imm, rot))

InitArith ==
  \/ OperandCall("MultiplyAddSub", {"mla", "mls", "mad", "msb"},
                 SubRegSize, ZZZ, PG, {0}, {0})
  \/ OperandCall("AddSubPredicated", {"add", "sub", "subr"},
                 SubRegSize, ZZZ, PG, {0}, {0})
  \/ OperandCall("MinMaxDifference",
                 {"smax", "umax", "smin", "umin", "sabd", "uabd"},
                 SubRegSize, ZZZ, PG, {0}, {0})
  \/ OperandCall("MulDivPredicated",
                 {"mul", "smulh", "umulh", "sdiv", "udiv", "sdivr", "udivr"},
                 SubRegSize, ZZZ, PG, {0}, {0})
  \/ OperandCall("BitwiseLogicalPredicated", {"orr", "eor", "and_", "bic"},
                 SubRegSize, ZZZ, PG, {0}, {0})
  \/ OperandCall("IntegerReduction",
                 {"saddv", "uaddv", "smaxv", "umaxv", "sminv", "uminv",
                  "orv", "eorv", "andv"},
                 SubRegSize, ZZ, PG, {0}, {0})
  \/ OperandCall("MovprfxPredicated", {"movprfx_z", "movprfx_m"},
                 SubRegSize, ZZ, PG, {0}, {0})
  \/ OperandCall("ShiftImmPred",
                 {"asr", "lsr", "lsl", "asrd", "sqshl", "uqshl", "srshr",
                  "urshr", "sqshlu"},
                 SubRegSize, ZZ, PG, {1, 7}, {0})
  \/ OperandCall("ShiftByVector",
                 {"asr", "lsr", "lsl", "asrr", "lsrr", "lslr"},
                 SubRegSize, ZZZ, PG, {0}, {0})
  \/ OperandCall("ShiftByWide", {"asr_wide", "lsr_wide", "lsl_wide"},
                 SubRegSize, ZZZ, PG, {0}, {0})
  \/ OperandCall("UnaryPredicated",
                 {"sxtb", "uxtb", "sxth", "uxth", "sxtw", "uxtw", "abs", "neg",
                  "cls", "clz", "cnt", "cnot", "fabs", "fneg", "not_"},
                 SubRegSize, ZZ, PG, {0}, {0})
  \/ OperandCall("HalvingPredicated",
                 {"shadd", "uhadd", "shsub", "uhsub", "srhadd", "urhadd",
                  "shsubr", "uhsubr"},
                 SubRegSize, ZZZ, PG, {0}, {0})
  \/ OperandCall("IntegerPairwise",
                 {"addp", "smaxp", "umaxp", "sminp", "uminp"},
                 SubRegSize, ZZZ, PG, {0}, {0})
  \/ OperandCall("SaturatingAddSub",
                 {"sqadd", "uqadd", "sqsub", "uqsub", "suqadd", "usqadd",
                  "sqsubr", "uqsubr"},
                 SubRegSize, ZZZ, PG, {0}, {0})
  \/ OperandCall("ComplexIntAdd", {"cadd", "sqcadd"},
                 SubRegSize, ZZZ, {<<>>}, {0}, Rotations)

InitCompare ==
  \/ OperandCall("IntegerCompare",
                 {"cmpeq", "cmpge", "cmpgt", "cmphi", "cmphs", "cmpne"},
                 SubRegSize, ZZ, PdPg, {0}, {0})
  \/ OperandCall("IntegerCompareWide",
                 {"cmpeq_wide", "cmpgt_wide", "cmpge_wide", "cmphi_wide",
                  "cmphs_wide", "cmplt_wide", "cmple_wide", "cmplo_wide",
                  "cmpls_wide", "cmpne_wide"},
                 SubRegSize, ZZ, PdPg, {0}, {0})
  \/ OperandCall("CompareUnsignedImm", {"cmphi", "cmphs", "cmplo", "cmpls"},
                 SubRegSize, {<<0>>, <<21>>, <<31>>}, PdPg, {0, 85, 127, 128},
                 {0})
  \/ OperandCall("CompareSignedImm",
                 {"cmpeq", "cmpgt", "cmpge", "cmplt", "cmple"},
                 SubRegSize, {<<0>>, <<21>>, <<31>>}, PdPg,
                 {-17, -16, -1, 0, 10, 15, 16}, {0})
  \/ OperandCall("FloatCompare",
                 {"fcmeq", "fcmgt", "fcmge", "fcmne", "fcmuo", "facge", "facgt",
                  "facle", "faclt"},
                 SubRegSize, ZZ, PdPg, {0}, {0})
  \/ OperandCall("FloatCompareZero",
                 {"fcmge", "fcmgt", "fcmlt", "fcmle", "fcmeq", "fcmne"},
                 SubRegSize, {<<0>>, <<21>>, <<31>>}, PdPg, {0}, {0})
  \/ OperandCall("CharacterMatch", {"match", "nmatch"},
                 SubRegSize, ZZ, PdPg, {0}, {0})
  \/ OperandCall("HistogramCount", {"histcnt"},
                 SubRegSize, ZZZ, PG, {0}, {0})

InitFloatPermute ==
  \/ OperandCall("FloatArithmeticPredicated",
                 {"fadd", "fsub", "fmul", "fsubr", "fmaxnm", "fminnm", "fmax",
                  "fmin", "fabd", "fscale", "fmulx", "fdivr", "fdiv"},
                 SubRegSize, ZZZ, PG, {0}, {0})
  \/ OperandCall("FloatArithmeticPredicated", {"ftmad"},
                 SubRegSize, ZZZ, {<<>>}, {0, 5, 7, 8}, {0})
  \/ OperandCall("FloatPairwise",
                 {"faddp", "fmaxnmp", "fminnmp", "fmaxp", "fminp"},
                 SubRegSize, ZZZ, PG, {0}, {0})
  \/ OperandCall("FloatReduction",
                 {"faddv", "fmaxnmv", "fminnmv", "fmaxv", "fminv"},
                 SubRegSize, ZZ, PG, {0}, {0})
  \/ OperandCall("FloatSerialReduction", {"fadda"},
                 SubRegSize, ZZZ, PG, {0}, {0})
  \/ OperandCall("FloatComplexAdd", {"fcadd"},
                 SubRegSize, ZZZ, PG, {0}, Rotations)
  \/ OperandCall("FloatComplexMulAdd", {"fcmla"},
                 SubRegSize, ZZZ, PG, {0}, Rotations)
  \/ OperandCall("BitwiseTernary",
                 {"eor3", "bsl", "bcax", "bsl1n", "bsl2n", "nbsl"},
                 {i8Bit}, ZZZZ, {<<>>}, {0}, {0})
  \/ OperandCall("PermutePredicated",
                 {"cpy_v", "compact", "cpy_r", "lasta_r", "lastb_r", "lasta_v",
                  "lastb_v", "revb", "revh", "revw", "rbit"},
                 SubRegSize, ZZ, PG, {0}, {0})
  \/ OperandCall("PermutePredicated",
                 {"splice_con", "splice_des", "clasta_z", "clastb_z",
                  "clasta_v", "clastb_v", "clasta_r", "clastb_r"},
                 SubRegSize, ZZZ, PG, {0}, {0})
  \/ OperandCall("ExtractVector", {"ext_con", "ext_des"},
                 {i8Bit}, ZZZ, {<<>>}, {0, 7, 8, 170, 255}, {0})
  \/ OperandCall("PropagateBreak",
                 {"brkpa", "brkpb", "brkpas", "brkpbs", "brkn", "brkns"},
                 {i8Bit}, {<<>>}, PdPgPnPm, {0}, {0})
  \/ OperandCall("PredicateMisc", {"pnext"},
                 SubRegSize, {<<>>}, PdPgPn, {0}, {0})
  \/ OperandCall("PredicateMisc", {"pfirst"},
                 {i16Bit}, {<<>>}, PdPgPn, {0}, {0})

InitOperands == InitArith \/ InitCompare \/ InitFloatPermute

NextOperands ==
  \E e \in Emitters :
    \/ MultiplyAddSub(e) \/ AddSubPredicated(e) \/ MinMaxDifference(e)
    \/ MulDivPredicated(e) \/ BitwiseLogicalPredicated(e)
    \/ IntegerReduction(e) \/ MovprfxPredicated(e) \/ ShiftImmPred(e)
    \/ ShiftByVector(e) \/ ShiftByWide(e) \/ UnaryPredicated(e)
    \/ HalvingPredicated(e) \/ IntegerPairwise(e) \/ SaturatingAddSub(e)
    \/ ComplexIntAdd(e) \/ IntegerCompare(e) \/ IntegerCompareWide(e)
    \/ CompareUnsignedImm(e) \/ CompareSignedImm(e) \/ FloatCompare(e)
    \/ FloatCompareZero(e) \/ CharacterMatch(e) \/ HistogramCount(e)
    \/ FloatArithmeticPredicated(e) \/ FloatPairwise(e) \/ FloatReduction(e)
    \/ FloatSerialReduction(e) \/ FloatComplexAdd(e) \/ FloatComplexMulAdd(e)
    \/ BitwiseTernary(e) \/ PermutePredicated(e) \/ ExtractVector(e)
    \/ PropagateBreak(e) \/ PredicateMisc(e)

SpecOperands == InitOperands /\ [][NextOperands]_vars

\* The mnemonics that take the destination and the aliased source as
\* separate parameters.
DestructiveForms ==
  {"MinMaxDifference", "BitwiseLogicalPredicated", "BitwiseTernary",
   "AddSubPredicated", "MulDivPredicated", "ShiftImmPred", "ShiftByVector",
   "ShiftByWide", "HalvingPredicated", "IntegerPairwise", "SaturatingAddSub",
   "FloatArithmeticPredicated", "FloatPairwise", "FloatComplexAdd",
   "ComplexIntAdd", "FloatSerialReduction", "PredicateMisc"}

Destructive(c) ==
  \/ c.f \in DestructiveForms
  \/ c.f = "ExtractVector" /\ c.m = "ext_des"
  \/ c.f = "PermutePredicated"
       /\ c.m \in {"splice_des", "clasta_z", "clastb_z", "clasta_v", "clastb_v",
                   "clasta_r", "clastb_r"}
  \/ c.f = "PropagateBreak" /\ c.m \in {"brkn", "brkns"}

\* The destination operand and the source operand that has to name it.
Destination(c) ==
  IF c.f \in {"PropagateBreak", "PredicateMisc"} THEN c.p[1] ELSE c.z[1]

AliasedSource(c) ==
  IF c.f = "PropagateBreak" THEN c.p[4]
  ELSE IF c.f = "PredicateMisc" THEN c.p[3]
  ELSE c.z[2]

\* C8: a destructive-form mnemonic that takes the destination and the aliased
\* source as separate parameters aborts and appends nothing when the two name
\* different registers, whatever the other operands are.
C8_AliasedDestination ==
  \A e \in Emitters :
    (call[e] # NoCall /\ Destructive(call[e])
       /\ Destination(call[e]) # AliasedSource(call[e]))
      => Rejected(e)

\* An add whose every other operand is in range is turned down for naming
\* z10 as destination and z21 as first source.
C8_Witness ==
  /\ call[1].f = "AddSubPredicated" /\ call[1].m = "add"
  /\ call[1].z[1] = 10 /\ call[1].z[2] = 21 /\ call[1].p[1] <= p7
  /\ call[1].size = i32Bit
  /\ Rejected(1)

\* The forms that check their governing predicate against p7.
GovernedForms ==
  {"AddSubPredicated", "MulDivPredicated", "MultiplyAddSub", "ShiftImmPred",
   "ShiftByVector", "ShiftByWide", "HalvingPredicated", "IntegerPairwise",
   "SaturatingAddSub", "FloatArithmeticPredicated", "FloatPairwise",
   "IntegerCompare", "IntegerCompareWide", "FloatCompare", "FloatCompareZero",
   "IntegerReduction", "FloatReduction", "FloatSerialReduction",
   "FloatComplexMulAdd", "FloatComplexAdd", "HistogramCount", "CharacterMatch",
   "PermutePredicated"}

\* ftmad takes no predicate operand.
Governed(c) == c.f \in GovernedForms /\ c.m # "ftmad"

\* The governing predicate of a call: it follows pd where there is one.
GoverningPredicate(c) ==
  IF c.f \in {"IntegerCompare", "IntegerCompareWide", "FloatCompare",
              "FloatCompareZero", "CharacterMatch", "CompareUnsignedImm",
              "CompareSignedImm"}
  THEN c.p[2]
  ELSE c.p[1]

\* C9: a governing predicate p8..p15 makes the predicated arithmetic, shift,
\* compare, reduction, complex, histogram, match and permute mnemonics abort
\* and append nothing.
C9_GoverningPredicate ==
  \A e \in Emitters :
    (call[e] # NoCall /\ Governed(call[e])
       /\ GoverningPredicate(call[e]) \in 8..15)
      => Rejected(e)

\* A multiply-add on 32-bit elements is turned down for being governed by p8.
C9_Witness ==
  /\ call[1].f = "MultiplyAddSub" /\ call[1].m = "mla"
  /\ call[1].size = i32Bit /\ call[1].p[1] = p8
  /\ Rejected(1)

\* The forms that encode the governing predicate without checking it.
UncheckedForms ==
  {"MinMaxDifference", "BitwiseLogicalPredicated", "UnaryPredicated",
   "MovprfxPredicated", "CompareUnsignedImm", "CompareSignedImm"}

\* Bit 13 as the opcode template and the mnemonic's opcode bits fix it: set in
\* the unary and movprfx templates, lt of the unsigned and o2 of the signed
\* compares with immediate, clear elsewhere.
OpcodeBit13(c) ==
  IF c.f \in {"UnaryPredicated", "MovprfxPredicated"} THEN 1
  ELSE IF c.f = "CompareUnsignedImm" /\ c.m \in {"cmplo", "cmpls"} THEN 1
  ELSE IF c.f = "CompareSignedImm" /\ c.m \in {"cmplt", "cmple"} THEN 1
  ELSE 0

\* C10: in every accepted call of min/max/difference, predicated logical,
\* predicated unary, predicated movprfx and compare with immediate, bit 13 of
\* the emitted word is the bit the template and the mnemonic fix, whatever the
\* governing predicate is.
C10_PredicateField ==
  \A e \in Emitters :
    (Accepted(e) /\ call[e].f \in UncheckedForms)
      => ((13 \in Word(e)) <=> (OpcodeBit13(call[e]) = 1))

\* smax (i8Bit, z0, p8, z0, z1) is accepted and comes out with bit 13 set.
C10_SmaxP8 ==
  /\ call[1].f = "MinMaxDifference" /\ call[1].m = "smax"
  /\ call[1].size = i8Bit /\ call[1].z = <<0, 0, 1>> /\ call[1].p = <<p8>>
  /\ Accepted(1)
  /\ 13 \in Word(1)

\* C11: the predicated add/sub/subr and mul/smulh/umulh turn the 128-bit
\* element size down (abort, nothing appended), so that in every accepted call
\* the element size is not 128-bit and bit 24 of the word is bit 24 of the
\* opcode template, which is clear for both groups.
C11_SizeCode ==
  \A e \in Emitters :
    (call[e] # NoCall
       /\ \/ call[e].f = "AddSubPredicated"
          \/ call[e].f = "MulDivPredicated"
               /\ call[e].m \in {"mul", "smulh", "umulh"})
      => /\ call[e].size = i128Bit => Rejected(e)
         /\ Accepted(e) => 24 \notin Word(e)

\* ------------------------------------------------------------------------
\* Addressing modes and default branches
\* ------------------------------------------------------------------------

ContiguousForms ==
  {"ld1b", "ld1sw", "ld1h", "ld1sh", "ld1w", "ld1sb", "ld1d", "st1b", "st1h",
   "st1w", "st1d"}

\* The element sizes a contiguous load/store mnemonic compiles for; ld1sw,
\* ld1d and st1d take none.
ContiguousSizes(m) ==
  CASE m \in {"ld1b", "st1b"} -> SubRegSize
    [] m \in {"ld1h", "st1h"} -> SubRegSize \ {i8Bit}
    [] m \in {"ld1sh", "ld1w", "st1w"} -> {i32Bit, i64Bit}
    [] m = "ld1sb" -> {i16Bit, i32Bit, i64Bit}
    [] m = "ld1sw" -> {i64Bit}
    [] m \in {"ld1d", "st1d"} -> {i64Bit}

\* Offsets on both sides of -8 and 7.
ImmSamples == {-9, -8, -1, 0, 7, 8}

\* Memory operands of every addressing mode; a mode leaves the union members
\* of the other modes at zero.
MemOperands ==
  {SVEMemOperand("TYPE_SCALAR_SCALAR", rn, rm, 0) :
     rn \in {0, 30}, rm \in {1, 30}}
    \cup {SVEMemOperand("TYPE_SCALAR_IMM", rn, 0, Imm) :
            rn \in {0, 30}, Imm \in ImmSamples}
    \cup {SVEMemOperand(t, rn, 0, 0) :
            t \in {"TYPE_SCALAR_VECTOR", "TYPE_VECTOR_IMM"}, rn \in {0, 30}}

\* Floating-point values in eighths, with and without an 8-bit immediate.
FloatSamples == {0, 1, 4, 8, 16, 248, 256, -8}

InitModes ==
  \/ \E m \in ContiguousForms, zt \in {0, 31}, pg \in {0, 7},
        Src \in MemOperands :
       \E size \in ContiguousSizes(m) :
         InitCall(Req("ContiguousMem", m, size, <<zt>>, <<pg>>, <<Src>>, 0, 0))
  \/ \E m \in {"scvtf", "ucvtf", "fcvtzs", "fcvtzu"}, dstsize \in SubRegSize,
        srcsize \in SubRegSize, z \in ZZ, pg \in {0, 7} :
       InitCall(Req("Convert", m, dstsize, z, <<pg>>, <<>>, srcsize, 0))
  \/ \E m \in {"fdup", "fmov"}, size \in SubRegSize, zd \in {0, 31},
        Value \in FloatSamples :
       InitCall(Req("BroadcastFloatImm", m, size, <<zd>>, <<>>, <<>>, Value, 0))
  \/ \E m \in {"sqxtnb", "sqxtnt", "uqxtnb", "uqxtnt", "sqxtunb", "sqxtunt"},
        size \in SubRegSize, z \in ZZ :
       InitCall(Req("SaturatingExtractNarrow", m, size, z, <<>>, <<>>, 0, 0))

InitDefault == InitShift \/ InitModes

NextDefault ==
  \/ NextShift
  \/ \E e \in Emitters :
       \/ ContiguousMem(e) \/ Convert(e) \/ BroadcastFloatImm(e)
       \/ SaturatingExtractNarrow(e)

SpecDefault == InitDefault /\ [][NextDefault]_vars

\* C18: a memory-operand load/store whose operand is scalar plus vector or
\* vector plus immediate aborts and appends nothing.
C18_UnimplementedModes ==
  \A e \in Emitters :
    (call[e].f = "ContiguousMem"
       /\ call[e].x[1].MemType \in {"TYPE_SCALAR_VECTOR", "TYPE_VECTOR_IMM"})
      => Rejected(e)

\* st1w on 32-bit elements is turned down for a vector plus immediate
\* operand.
C18_Witness ==
  /\ call[1].f = "ContiguousMem" /\ call[1].m = "st1w"
  /\ call[1].size = i32Bit
  /\ call[1].x[1].MemType = "TYPE_VECTOR_IMM"
  /\ Rejected(1)

\* The element sizes for which an encoder has no branch but the default one.
FallsThrough(c) ==
  CASE c.f \in {"ShiftImmPred", "ShiftImmUnpred", "ShiftRightAcc",
                "ShiftInsert"} -> c.size = i128Bit
    [] c.f \in {"ShiftRightNarrow", "SaturatingExtractNarrow"} ->
         c.size \in {i64Bit, i128Bit}
    [] c.f = "BroadcastFloatImm" -> c.size \in {i8Bit, i128Bit}
    [] c.f = "Convert" -> c.imm \in {i8Bit, i128Bit}
    [] OTHER -> FALSE

\* C19: no call enters a default branch marked unreachable.  The five shift
\* encoders, the saturating extract narrow encoder, fdup and the conversions
\* abort on every element size that only the default branch would take, and
\* the memory-operand forms deal with each of the four addressing modes.
C19_NoDefaultBranch ==
  /\ ~unreachable
  /\ \A e \in Emitters :
       (call[e] # NoCall /\ FallsThrough(call[e])) => Rejected(e)
  /\ \A e \in Emitters :
       (call[e].f = "ContiguousMem" /\ ~aborted) => Accepted(e)

\* fdup on 8-bit elements with the value 1.0 aborts ahead of its default
\* branch.
C19_Witness ==
  /\ call[1].f = "BroadcastFloatImm" /\ call[1].m = "fdup"
  /\ call[1].size = i8Bit /\ call[1].imm = 8
  /\ Rejected(1) /\ ~unreachable

\* ------------------------------------------------------------------------
\* Alias mnemonics and delegating forms
\* ------------------------------------------------------------------------

\* The call that a delegating call stands for: the direct form of a
\* memory-operand load/store, the canonical mnemonic of an alias with the
\* operand the alias duplicates.
Canonical(r) ==
  CASE r.f = "ContiguousMem" /\ r.x[1].MemType = "TYPE_SCALAR_SCALAR" ->
         Req("ContiguousScalar", r.m, r.size, r.z, r.p,
             <<r.x[1].rn, r.x[1].rm>>, 0, 0)
    [] r.f = "ContiguousMem" /\ r.x[1].MemType = "TYPE_SCALAR_IMM" ->
         Req("ContiguousImm", r.m, r.size, r.z, r.p, <<r.x[1].rn>>,
             r.x[1].Imm, 0)
    [] r.f = "Select" /\ r.m = "mov" ->
         Req("Select", "sel", r.size, <<r.z[1], r.z[2], r.z[1]>>, r.p, <<>>,
             0, 0)
    [] r.f = "BitwiseLogicalUnpredicated" /\ r.m = "mov" ->
         Req(r.f, "orr", r.size, <<r.z[1], r.z[2], r.z[2]>>, r.p, <<>>, 0, 0)
    [] r.f = "PredicateLogical" /\ r.m = "mov" ->
         Req(r.f, "orr", r.size, r.z, <<r.p[1], r.p[2], r.p[2], r.p[2]>>,
             <<>>, 0, 0)
    [] r.f = "PredicateLogical" /\ r.m = "movs" ->
         Req(r.f, "orrs", r.size, r.z, <<r.p[1], r.p[2], r.p[2], r.p[2]>>,
             <<>>, 0, 0)
    [] r.f = "PredicateLogical" /\ r.m = "mov_z" ->
         Req(r.f, "and_", r.size, r.z, <<r.p[1], r.p[2], r.p[3], r.p[3]>>,
             <<>>, 0, 0)
    [] r.f = "PredicateLogical" /\ r.m = "movs_z" ->
         Req(r.f, "ands", r.size, r.z, <<r.p[1], r.p[2], r.p[3], r.p[3]>>,
             <<>>, 0, 0)
    [] r.f = "PredicateLogical" /\ r.m = "mov_m" ->
         Req(r.f, "sel", r.size, r.z, <<r.p[1], r.p[2], r.p[3], r.p[1]>>,
             <<>>, 0, 0)
    [] r.f = "PredicateLogical" /\ r.m = "not_" ->
         Req(r.f, "eor", r.size, r.z, <<r.p[1], r.p[2], r.p[3], r.p[2]>>,
             <<>>, 0, 0)
    [] r.f = "FloatCompare" /\ r.m = "facle" ->
         Req(r.f, "facge", r.size, <<r.z[2], r.z[1]>>, r.p, <<>>, 0, 0)
    [] r.f = "FloatCompare" /\ r.m = "faclt" ->
         Req(r.f, "facgt", r.size, <<r.z[2], r.z[1]>>, r.p, <<>>, 0, 0)
    [] OTHER -> NoCall

\* Emitter 1 is about to make the delegating call r, emitter 2 the call r
\* stands for.
InitBoth(r) ==
  /\ pending = [e \in Emitters |-> IF e = 1 THEN <<r>> ELSE <<Canonical(r)>>]
  /\ stream = [e \in Emitters |-> <<>>]
  /\ call = [e \in Emitters |-> NoCall]
  /\ aborted = FALSE
  /\ unreachable = FALSE

InitAlias ==
  \/ \E m \in ContiguousForms, zt \in {0, 31}, pg \in {0, 7},
        Src \in {s \in MemOperands :
                   s.MemType \in {"TYPE_SCALAR_SCALAR", "TYPE_SCALAR_IMM"}} :
       \E size \in ContiguousSizes(m) :
         InitBoth(Req("ContiguousMem", m, size, <<zt>>, <<pg>>, <<Src>>, 0, 0))
  \/ \E size \in SubRegSize, z \in ZZ, pg \in PSamples :
       InitBoth(Req("Select", "mov", size, z, <<pg>>, <<>>, 0, 0))
  \/ \E z \in ZZ :
       InitBoth(Req("BitwiseLogicalUnpredicated", "mov", i8Bit, z, <<>>, <<>>,
                    0, 0))
  \/ \E m \in {"mov", "movs"}, pd \in PSamples, pn \in PSamples :
       InitBoth(Req("PredicateLogical", m, i8Bit, <<>>, <<pd, pn>>, <<>>, 0, 0))
  \/ \E m \in {"mov_z", "movs_z", "mov_m", "not_"}, pd \in PSamples,
        pg \in PSamples, pn \in {1, 14} :
       InitBoth(Req("PredicateLogical", m, i8Bit, <<>>, <<pd, pg, pn>>, <<>>,
                    0, 0))
  \/ \E m \in {"facle", "faclt"}, size \in SubRegSize, z \in ZZ, p \in PdPg :
       InitBoth(Req("FloatCompare", m, size, z, p, <<>>, 0, 0))

NextAlias ==
  \E e \in Emitters :
    \/ ContiguousMem(e) \/ ContiguousScalar(e) \/ ContiguousImm(e)
    \/ Select(e) \/ BitwiseLogicalUnpredicated(e) \/ PredicateLogical(e)
    \/ FloatCompare(e)

SpecAlias == InitAlias /\ [][NextAlias]_vars

\* Both calls were made: neither aborted, and each put one word on its
\* stream.  (Were one of the two calls to abort and the other not, a state
\* with an abort after both calls would be reached.)
BothCalled ==
  /\ call[1] # NoCall /\ call[2] = Canonical(call[1])
  /\ call[2] # NoCall

SameOutcome ==
  /\ ~aborted /\ ~unreachable
  /\ Len(stream[1]) = 1 /\ stream[1] = stream[2]

\* C17: the memory-operand form of ld1b .. st1d emits the word of the direct
\* (rn, rm) form for a scalar plus scalar operand and the word of the direct
\* (rn, Imm) form for a scalar plus immediate operand, and aborts as the
\* direct form does, for an immediate outside -8..7.
C17_MemOperandForms ==
  /\ (call[1].f = "ContiguousMem" /\ BothCalled) => SameOutcome
  /\ (call[1].f = "ContiguousMem"
        /\ call[1].x[1].MemType = "TYPE_SCALAR_IMM"
        /\ call[1].x[1].Imm \notin -8 .. 7) => Rejected(1)
  /\ (call[2].f = "ContiguousImm" /\ call[2].imm \notin -8 .. 7)
       => Rejected(2)

\* ld1w on 32-bit elements with the operand (x30, -8) and the direct
\* ld1w (zt, pg, x30, -8) put the same word on their streams.
C17_Witness ==
  /\ call[1].f = "ContiguousMem" /\ call[1].m = "ld1w"
  /\ call[1].size = i32Bit
  /\ call[1].x[1] = SVEMemOperand("TYPE_SCALAR_IMM", 30, 0, -8)
  /\ call[2].f = "ContiguousImm" /\ call[2].imm = -8
  /\ BothCalled /\ SameOutcome

\* C20: an alias mnemonic emits the word of its canonical form with the
\* duplicated operand: the vector mov of sel and of orr, the predicate mov,
\* movs and not_ of orr, orrs, and_, ands, sel and eor, and facle, faclt of
\* facge, facgt with the vectors exchanged.
C20_Aliases ==
  (call[1].f \in {"Select", "BitwiseLogicalUnpredicated", "PredicateLogical",
                  "FloatCompare"}
     /\ BothCalled) => SameOutcome

\* not_ (p0, p7, p14) and eor (p0, p7, p14, p7) put the same word on their
\* streams.
C20_Witness ==
  /\ call[1].f = "PredicateLogical" /\ call[1].m = "not_"
  /\ call[1].p = <<0, 7, 14>>
  /\ call[2].m = "eor" /\ call[2].p = <<0, 7, 14, 7>>
  /\ BothCalled /\ SameOutcome

\* ------------------------------------------------------------------------
\* Call sequences on two output streams
\* ------------------------------------------------------------------------

\* The number of calls each emitter's code generator makes.
StreamCalls == 3

\* The calls a code generator draws from: alias mnemonics, memory-operand
\* forms and plain mnemonics, some with an operand out of range.
CallPool ==
  <<Req("DupScalar", "mov", i32Bit, <<3>>, <<>>, <<5>>, 0, 0),
   Req("BroadcastImm", "mov_imm", i16Bit, <<1>>, <<>>, <<>>, <<-1, TRUE>>, 0),
   Req("BroadcastImm", "dup_imm", i8Bit, <<1>>, <<>>, <<>>, <<200, FALSE>>, 0),
   Req("BroadcastFloatImm", "fmov", i32Bit, <<2>>, <<>>, <<>>, 8, 0),
   Req("FloatCompare", "facle", i32Bit, <<3, 4>>, <<1, 2>>, <<>>, 0, 0),
   Req("FloatCompare", "faclt", i64Bit, <<4, 3>>, <<1, 2>>, <<>>, 0, 0),
   Req("ContiguousMem", "ld1b", i8Bit, <<31>>, <<7>>,
       <<SVEMemOperand("TYPE_SCALAR_IMM", 30, 0, -8)>>, 0, 0),
   Req("ContiguousMem", "st1d", i64Bit, <<0>>, <<0>>,
       <<SVEMemOperand("TYPE_SCALAR_VECTOR", 1, 0, 0)>>, 0, 0),
   Req("ShiftImmPred", "asr", i32Bit, <<0, 0>>, <<0>>, <<>>, 1, 0),
   Req("AddSubUnpredicated", "add", i32Bit, <<0, 1, 2>>, <<>>, <<>>, 0, 0),
   Req("Convert", "fcvtzs", i16Bit, <<0, 1>>, <<0>>, <<>>, i32Bit, 0)>>

\* The second emitter makes the calls of the first, in the same order or
\* starting from the second of them.
Rotate(s) == Tail(s) \o <<Head(s)>>

InitStream ==
  \E s \in [1 .. StreamCalls -> 1 .. Len(CallPool)], twin \in BOOLEAN :
    LET calls == [i \in 1 .. StreamCalls |-> CallPool[s[i]]]
    IN
      /\ pending = [e \in Emitters |->
                      IF e = 1 \/ twin THEN calls ELSE Rotate(calls)]
      /\ stream = [e \in Emitters |-> <<>>]
      /\ call = [e \in Emitters |-> NoCall]
      /\ aborted = FALSE
      /\ unreachable = FALSE

\* Both emitters make the same calls in the same order.
InitTwin ==
  \E s \in [1 .. StreamCalls -> 1 .. Len(CallPool)] :
    /\ pending = [e \in Emitters |->
                    [i \in 1 .. StreamCalls |-> CallPool[s[i]]]]
    /\ stream = [e \in Emitters |-> <<>>]
    /\ call = [e \in Emitters |-> NoCall]
    /\ aborted = FALSE
    /\ unreachable = FALSE

NextStream ==
  \E e \in Emitters :
    \/ DupScalar(e) \/ BroadcastImm(e) \/ BroadcastFloatImm(e)
    \/ FloatCompare(e) \/ ContiguousMem(e) \/ ShiftImmPred(e)
    \/ AddSubUnpredicated(e) \/ Convert(e)

SpecStream == InitStream /\ [][NextStream]_vars

SpecTwin == InitTwin /\ [][NextStream]_vars

\* The calls emitter e has made.
Made(e) == StreamCalls - Len(pending[e])

\* The one call that ended the process, if any.
Failed == IF aborted \/ unreachable THEN 1 ELSE 0

LastWord(e) == stream[e][Len(stream[e])]

ImmSlack == 3

Imm5Samples == (-16 - ImmSlack) .. (15 + ImmSlack)

Imm7Samples == {0, 1, 63, 64, 85, 126} \cup (127 .. (127 + ImmSlack))

Imm8Samples == ((-128 - ImmSlack) .. (-126)) \cup {-1, 0, 1, 85}
                 \cup (126 .. (127 + ImmSlack))

Imm9Samples == ((-256 - ImmSlack) .. (-254)) \cup {-9, -8, -1, 0, 1, 7, 8, 85}
                 \cup (254 .. (255 + ImmSlack))

IndexOperands(m) ==
  CASE m = "index_ii" -> Imm5Samples \X Imm5Samples
    [] m = "index_ri" -> {0, 21, 31} \X Imm5Samples
    [] m = "index_ir" -> Imm5Samples \X {0, 21, 31}
    [] m = "index_rr" -> {0, 21, 31} \X {0, 21, 31}

InitImmediate ==
  \/ OperandCall("CompareUnsignedImm", {"cmphi", "cmphs", "cmplo", "cmpls"},
                 SubRegSize, {<<0>>, <<31>>}, {<<0, 0>>, <<15, 7>>},
                 Imm7Samples, {0})
  \/ OperandCall("CompareSignedImm",
                 {"cmpeq", "cmpgt", "cmpge", "cmplt", "cmple"},
                 SubRegSize, {<<0>>, <<31>>}, {<<0, 0>>, <<15, 7>>},
                 Imm5Samples, {0})
  \/ \E m \in {"index_ii", "index_ri", "index_ir", "index_rr"} :
       OperandCall("IndexGeneration", {m}, SubRegSize, {<<0>>, <<31>>}, {<<>>},
                   IndexOperands(m), {0})
  \/ \E rn \in {0, 21, 31}, Imm \in Imm9Samples :
       \/ \E pt \in {0, 10, 15} :
            InitCall(Req("Ldr", "ldr_p", 0, <<>>, <<pt>>, <<rn>>, Imm, 0))
       \/ \E zt \in {0, 21, 31} :
            InitCall(Req("Ldr", "ldr_z", 0, <<zt>>, <<>>, <<rn>>, Imm, 0))
  \/ OperandCall("FcmlaIndexed", {"fcmla"}, SubRegSize,
                 {0, 31} \X {0, 31} \X {0, 5, 7, 8, 15, 16, 31}, {<<>>},
                 0 .. (3 + ImmSlack), Rotations)
  \/ OperandCall("BroadcastImm", {"dup_imm", "mov_imm"}, SubRegSize,
                 {<<0>>, <<31>>}, {<<>>}, Imm8Samples \X BOOLEAN, {0})

NextImmediate ==
  \E e \in Emitters :
    \/ CompareUnsignedImm(e)
    \/ CompareSignedImm(e)
    \/ IndexGeneration(e)
    \/ Ldr(e)
    \/ FcmlaIndexed(e)
    \/ BroadcastImm(e)

SpecImmediate == InitImmediate /\ [][NextImmediate]_vars

\* The value of the field at bits hi:lo of word w read as two's complement.
SignExtend(w, hi, lo) ==
  LET f == Field(w, hi, lo)
      half == 2 ^ (hi - lo)
  IN IF f >= half THEN f - 2 * half ELSE f

\* C21: the signed-immediate compares and the immediate operands of index
\* abort and append nothing for an immediate outside -16..15, and store an
\* accepted immediate as its 5-bit two's complement, whose sign extension is
\* the immediate; the unsigned compares abort for imm >= 128 and store an
\* accepted immediate unchanged at bits 20:14.
C21_Immediates ==
  /\ call[1].f = "CompareSignedImm" =>
       IF call[1].imm < -16 \/ call[1].imm > 15 THEN Rejected(1)
       ELSE Accepted(1) =>
              /\ Field(Word(1), 20, 16) = call[1].imm % 32
              /\ SignExtend(Word(1), 20, 16) = call[1].imm
  /\ call[1].f = "IndexGeneration" =>
       LET imm1 == call[1].m \in {"index_ii", "index_ir"}
           imm2 == call[1].m \in {"index_ii", "index_ri"}
           out(v) == v < -16 \/ v > 15
       IN IF \/ imm1 /\ out(call[1].imm[1])
             \/ imm2 /\ out(call[1].imm[2])
          THEN Rejected(1)
          ELSE Accepted(1) =>
                 /\ imm1 => /\ Field(Word(1), 9, 5) = call[1].imm[1] % 32
                            /\ SignExtend(Word(1), 9, 5) = call[1].imm[1]
                 /\ imm2 => /\ Field(Word(1), 20, 16) = call[1].imm[2] % 32
                            /\ SignExtend(Word(1), 20, 16) = call[1].imm[2]
  /\ call[1].f = "CompareUnsignedImm" =>
       IF call[1].imm >= 128 THEN Rejected(1)
       ELSE Accepted(1) => Field(Word(1), 20, 14) = call[1].imm

\* index has encoded two negative immediates.
C21_Witness ==
  /\ call[1].f = "IndexGeneration" /\ call[1].m = "index_ii" /\ Accepted(1)
  /\ call[1].imm = <<-16, -3>>
  /\ Field(Word(1), 9, 5) = 16 /\ Field(Word(1), 20, 16) = 29

\* C22: the N-register structured loads/stores (N = 2, 3, 4) abort and
\* append nothing unless Imm is a multiple of N within -8N..7N; an accepted
\* offset is stored as Imm / N in 4-bit two's complement at bits 19:16, so
\* that the sign-extended field times N is Imm, and bit 20 stays what the
\* template makes it (clear for loads, set for stores).
C22_StructOffset ==
  call[1].f \in {"LoadStructures", "StoreStructures"} =>
    LET N == StructN(call[1])
        Imm == call[1].imm
        lim == <<<<0, 0>>, <<-16, 14>>, <<-24, 21>>, <<-32, 28>>>>[N]
    IN /\ N \in {2, 3, 4}
       /\ ~(Imm % N = 0 /\ Imm >= lim[1] /\ Imm <= lim[2]) => Rejected(1)
       /\ Accepted(1) =>
            /\ Field(Word(1), 19, 16) = (Imm \div N) % 16
            /\ SignExtend(Word(1), 19, 16) * N = Imm
            /\ 20 \in Word(1) <=> call[1].f = "StoreStructures"

\* A three-register load has encoded its lowest offset, -24, as the field 8.
C22_Witness ==
  /\ call[1].f = "LoadStructures" /\ StructN(call[1]) = 3
  /\ call[1].imm = -24 /\ Accepted(1)
  /\ Field(Word(1), 19, 16) = 8 /\ 20 \notin Word(1)

\* C23: ldr (predicate and vector forms) aborts and appends nothing for an
\* offset outside -256..255; an accepted offset is split as 9-bit two's
\* complement into its upper six bits at bits 21:16 and its lower three bits
\* at bits 12:10, so that the two parts put together and sign-extended are
\* the offset, and op2 (15:13), rn (9:5) and the target (4:0) are untouched.
C23_LdrOffset ==
  call[1].f = "Ldr" =>
    LET Imm == call[1].imm
        t == IF call[1].m = "ldr_p" THEN call[1].p[1] ELSE call[1].z[1]
    IN IF Imm < -256 \/ Imm > 255 THEN Rejected(1)
       ELSE /\ Accepted(1)
            /\ LET hi == Field(Word(1), 21, 16)
                   lo == Field(Word(1), 12, 10)
                   imm9 == hi * 8 + lo
               IN /\ imm9 = Imm % 512
                  /\ (IF imm9 >= 256 THEN imm9 - 512 ELSE imm9) = Imm
            /\ Field(Word(1), 15, 13) = (IF call[1].m = "ldr_p" THEN 0 ELSE \b010)
            /\ Field(Word(1), 9, 5) = call[1].x[1]
            /\ Field(Word(1), 4, 0) = t
            /\ Field(Word(1), 31, 22) = \b1000010110

\* The vector form has encoded the offset -9: upper part 0b111110 and lower
\* part 0b111.
C23_Witness ==
  /\ call[1].f = "Ldr" /\ call[1].m = "ldr_z" /\ call[1].imm = -9
  /\ Accepted(1)
  /\ Field(Word(1), 21, 16) = \b111110 /\ Field(Word(1), 12, 10) = \b111

\* C24: indexed fcmla accepts only 16-bit elements with index 0..3 and zm
\* in z0..z7, or 32-bit elements with index 0..1 and zm in z0..z15, and
\* aborts otherwise; in an accepted word the index and zm fill bits 20:16
\* without overlap (16-bit: index 20:19, zm 18:16; 32-bit: index 20, zm
\* 19:16), bit 22 is 0 for 16-bit and 1 for 32-bit, and the rotation is at
\* bits 11:10.
C24_FcmlaIndexed ==
  call[1].f = "FcmlaIndexed" =>
    LET c == call[1]
        zm == c.z[3]
        half == c.size = i16Bit /\ c.imm <= 3 /\ zm <= 7
        single == c.size = i32Bit /\ c.imm <= 1 /\ zm <= 15
    IN IF ~(half \/ single) THEN Rejected(1)
       ELSE /\ Accepted(1)
            /\ half => /\ Field(Word(1), 20, 19) = c.imm
                       /\ Field(Word(1), 18, 16) = zm
                       /\ 22 \notin Word(1)
            /\ single => /\ Field(Word(1), 20, 20) = c.imm
                         /\ Field(Word(1), 19, 16) = zm
                         /\ 22 \in Word(1)
            /\ Field(Word(1), 11, 10) = c.rot
            /\ Field(Word(1), 9, 5) = c.z[2] /\ Field(Word(1), 4, 0) = c.z[1]
            /\ Field(Word(1), 31, 23) = \b011001001 /\ 21 \in Word(1)
            /\ Field(Word(1), 15, 12) = \b0001

\* A 32-bit call with index 1 and zm = z15 fills bits 20:16 entirely.
C24_Witness ==
  /\ call[1].f = "FcmlaIndexed" /\ call[1].size = i32Bit
  /\ call[1].imm = 1 /\ call[1].z[3] = 15 /\ call[1].rot = Rotation.ROTATE_270
  /\ Accepted(1)
  /\ Field(Word(1), 20, 16) = \b11111 /\ Field(Word(1), 11, 10) = \b11

\* C25: dup_imm and its alias mov_imm abort and append nothing for the
\* 128-bit size, for a Value outside -128..127, or for LSL8 with 8-bit
\* elements; an accepted call emits the value as 8-bit two's complement at
\* bits 12:5 and the shift flag at bit 13, and every other bit is fixed by
\* the size and zd, so that mov_imm and dup_imm emit the same word.
C25_BroadcastImm ==
  call[1].f = "BroadcastImm" =>
    LET c == call[1]
        Value == c.imm[1]
        LSL8 == c.imm[2]
    IN /\ c.m \in {"dup_imm", "mov_imm"}
       /\ IF \/ c.size = i128Bit
             \/ Value < -128 \/ Value > 127
             \/ (LSL8 /\ c.size = i8Bit)
          THEN Rejected(1)
          ELSE /\ Accepted(1)
               /\ Field(Word(1), 12, 5) = Value % 256
               /\ SignExtend(Word(1), 12, 5) = Value
               /\ 13 \in Word(1) <=> LSL8
               /\ Field(Word(1), 31, 24) = \b00100101
               /\ Field(Word(1), 23, 22) = c.size
               /\ Field(Word(1), 21, 14) = \b11100011
               /\ Field(Word(1), 4, 0) = c.z[1]

\* mov_imm has emitted -128 with the shift flag on 16-bit elements.
C25_Witness ==
  /\ call[1].f = "BroadcastImm" /\ call[1].m = "mov_imm"
  /\ call[1].size = i16Bit /\ call[1].imm = <<-128, TRUE>>
  /\ Accepted(1)
  /\ Field(Word(1), 13, 5) = \b110000000

\* ------------------------------------------------------------------------
\* Pairs of calls
\* ------------------------------------------------------------------------

\* The state after construction, with emitter 1 about to make the call r1
\* and emitter 2 the call r2.
InitPair(r1, r2) ==
  /\ pending = [e \in Emitters |-> IF e = 1 THEN <<r1>> ELSE <<r2>>]
  /\ stream = [e \in Emitters |-> <<>>]
  /\ call = [e \in Emitters |-> NoCall]
  /\ aborted = FALSE
  /\ unreachable = FALSE

\* A contiguous load/store call in either addressing mode.
ContiguousCall(f, m, size, zt, pg, rn, rm, Imm) ==
  IF f = "ContiguousImm"
  THEN Req(f, m, size, <<zt>>, <<pg>>, <<rn>>, Imm, 0)
  ELSE Req(f, m, size, <<zt>>, <<pg>>, <<rn, rm>>, 0, 0)

\* Two contiguous loads/stores of one element size: the same mnemonic, or
\* ld1w and st1w, each in either addressing mode.
InitContiguousPair ==
  \E m1 \in ContiguousForms, m2 \in ContiguousForms,
     f1 \in {"ContiguousImm", "ContiguousScalar"},
     f2 \in {"ContiguousImm", "ContiguousScalar"} :
    /\ m1 = m2 \/ {m1, m2} = {"ld1w", "st1w"}
    /\ \E size \in ContiguousSizes(m1) \cap ContiguousSizes(m2),
          zt \in {0, 31}, pg \in {0, 7}, rn \in {0, 30}, rm \in {1, 30},
          Imm \in {-8, 0, 7} :
         InitPair(ContiguousCall(f1, m1, size, zt, pg, rn, rm, Imm),
                  ContiguousCall(f2, m2, size, zt, pg, rn, rm, Imm))

\* A shift left long to the destination size, and the unpredicated left
\* shift by the same amount on elements of half that size (for 8-bit
\* destinations, which have no half, on 8-bit elements).
InitLongPair ==
  \E m \in {"sshllb", "sshllt", "ushllb", "ushllt"}, size \in SubRegSize,
     sh \in Shifts, z \in {<<21, 21>>, <<10, 21>>} :
    InitPair(Req("ShiftLeftLong", m, size, z, <<>>, <<>>, sh, 0),
             Req("ShiftImmUnpred", "lsl",
                 IF size = i8Bit THEN i8Bit ELSE size - 1, z, <<>>, <<>>, sh, 0))

\* The forms that carry their own copy of the shift splitter.
SplitterForms ==
  {"ShiftImmPred", "ShiftImmUnpred", "ShiftInsert", "ShiftRightAcc",
   "ShiftRightNarrow"}

\* The mnemonics of each form.
SplitterMnemonics(f) ==
  CASE f = "ShiftImmPred" ->
         {"asr", "lsr", "lsl", "asrd", "sqshl", "uqshl", "srshr", "urshr",
          "sqshlu"}
    [] f = "ShiftImmUnpred" -> {"asr", "lsr", "lsl"}
    [] f = "ShiftInsert" -> {"sri", "sli"}
    [] f = "ShiftRightAcc" -> {"ssra", "usra", "srsra", "ursra"}
    [] f = "ShiftRightNarrow" ->
         {"sqshrunb", "sqshrunt", "sqrshrunb", "sqrshrunt", "shrnb", "shrnt",
          "rshrnb", "rshrnt", "sqshrnb", "sqshrnt", "sqrshrnb", "sqrshrnt",
          "uqshrnb", "uqshrnt", "uqrshrnb", "uqrshrnt"}

\* One mnemonic of each form and direction.
SplitterSamples(f) ==
  CASE f = "ShiftImmPred" -> {"asr", "lsl"}
    [] f = "ShiftImmUnpred" -> {"asr", "lsl"}
    [] f = "ShiftInsert" -> {"sri", "sli"}
    [] f = "ShiftRightAcc" -> {"ssra"}
    [] f = "ShiftRightNarrow" -> {"shrnb"}

\* A shift call whose operands pass every check that is not about the
\* size or the shift: zd = zdn and a governing predicate in p0..p7.
ShiftCall(f, m, size, sh) ==
  Req(f, m, size, <<21, 21>>, IF f = "ShiftImmPred" THEN <<7>> ELSE <<>>,
      <<>>, sh, 0)

\* Two shifts of the same element size, direction and amount, of any two
\* forms.
InitSplitterPair ==
  \E f1 \in SplitterForms, f2 \in SplitterForms :
    \E m1 \in SplitterMnemonics(f1), m2 \in SplitterSamples(f2),
       size \in SubRegSize, sh \in Shifts :
      /\ IsLeft([f |-> f1, m |-> m1]) = IsLeft([f |-> f2, m |-> m2])
      /\ InitPair(ShiftCall(f1, m1, size, sh), ShiftCall(f2, m2, size, sh))

\* Two conversions of one mnemonic on the same registers, each with any
\* destination and source size.
InitConvertPair ==
  \E m \in {"scvtf", "ucvtf", "fcvtzs", "fcvtzu"},
     z \in {<<0, 31>>, <<21, 10>>}, pg \in {0, 7},
     d1 \in SubRegSize, s1 \in SubRegSize,
     d2 \in SubRegSize, s2 \in SubRegSize :
    InitPair(Req("Convert", m, d1, z, <<pg>>, <<>>, s1, 0),
             Req("Convert", m, d2, z, <<pg>>, <<>>, s2, 0))

\* The predicate logical mnemonics that are not aliases.
PredicateLogicalForms ==
  {"and_", "ands", "bic", "bics", "eor", "eors", "sel", "orr", "orn", "nor",
   "nand", "orrs", "orns", "nors", "nands"}

\* The integer vector compares, each with the form it belongs to.
VectorCompares ==
  ({"IntegerCompare"} \X {"cmpeq", "cmpge", "cmpgt", "cmphi", "cmphs", "cmpne"})
    \cup ({"IntegerCompareWide"}
            \X {"cmpeq_wide", "cmpgt_wide", "cmpge_wide", "cmphi_wide",
                "cmphs_wide", "cmplt_wide", "cmple_wide", "cmplo_wide",
                "cmpls_wide", "cmpne_wide"})

\* Two different mnemonics of one bitfield primitive on identical operands.
InitMnemonicPair ==
  \/ \E m1 \in PredicateLogicalForms, m2 \in PredicateLogicalForms,
        p \in {<<0, 0, 0, 0>>, <<15, 15, 15, 15>>, <<5, 10, 3, 12>>} :
       /\ m1 # m2
       /\ InitPair(Req("PredicateLogical", m1, i8Bit, <<>>, p, <<>>, 0, 0),
                   Req("PredicateLogical", m2, i8Bit, <<>>, p, <<>>, 0, 0))
  \/ \E c1 \in VectorCompares, c2 \in VectorCompares, size \in SubRegSize,
        z \in {<<0, 0>>, <<21, 10>>, <<31, 31>>},
        p \in {<<0, 0>>, <<15, 7>>, <<5, 8>>} :
       /\ c1 # c2
       /\ InitPair(Req(c1[1], c1[2], size, z, p, <<>>, 0, 0),
                   Req(c2[1], c2[2], size, z, p, <<>>, 0, 0))

InitPairs ==
  \/ InitContiguousPair
  \/ InitLongPair
  \/ InitSplitterPair
  \/ InitConvertPair
  \/ InitMnemonicPair

NextPairs ==
  \E e \in Emitters :
    \/ ContiguousImm(e) \/ ContiguousScalar(e)
    \/ ShiftLeftLong(e) \/ ShiftImmUnpred(e)
    \/ ShiftImmPred(e) \/ ShiftInsert(e) \/ ShiftRightAcc(e)
    \/ ShiftRightNarrow(e)
    \/ Convert(e)
    \/ PredicateLogical(e) \/ IntegerCompare(e) \/ IntegerCompareWide(e)

SpecPairs == InitPairs /\ [][NextPairs]_vars

\* Both emitters made their call and both calls were accepted.
BothAccepted ==
  /\ call[1] # NoCall /\ call[2] # NoCall
  /\ ~aborted /\ ~unreachable
  /\ Len(stream[1]) = 1 /\ Len(stream[2]) = 1

\* C26: for each contiguous load/store mnemonic and each element size it
\* accepts, the dtype field at bits 24:21 is the same in the scalar plus
\* immediate form as in the scalar plus scalar form; ld1w selects the same
\* dtype in both addressing modes, and the same dtype as st1w of that size.
C26_SameDtype ==
  (/\ BothAccepted
   /\ call[1].f \in {"ContiguousImm", "ContiguousScalar"}
   /\ call[2].f \in {"ContiguousImm", "ContiguousScalar"}
   /\ call[1].size = call[2].size)
    => Field(Word(1), 24, 21) = Field(stream[2][1], 24, 21)

\* The (tszh, tszl, imm3) fields of a shift word, which the predicated form
\* keeps at bits 23:22, 9:8 and 7:5 and every other form at 23:22, 20:19 and
\* 18:16.
SplitFields(f, w) ==
  IF f = "ShiftImmPred"
  THEN <<Field(w, 23, 22), Field(w, 9, 8), Field(w, 7, 5)>>
  ELSE <<Field(w, 23, 22), Field(w, 20, 19), Field(w, 18, 16)>>

\* C27: sshllb/sshllt/ushllb/ushllt, for destination size D in {16,32,64}
\* and shift s in 0..D/2-1, write into bits 23:22, 20:19 and 18:16 the
\* (tszh, tszl, imm3) that the shift splitter yields for a left shift by s
\* on element size D/2; they abort for 8-bit or 128-bit sizes and for
\* s >= D/2.
C27_ShiftLeftLong ==
  call[1].f = "ShiftLeftLong" =>
    LET c == call[1]
        D == SubRegSizeInBits(c.size)
        fits == c.size \in {i16Bit, i32Bit, i64Bit} /\ c.imm < D \div 2
    IN /\ ~fits => Rejected(1)
       /\ fits => ~aborted /\ Len(stream[1]) = 1
       /\ (fits /\ call[2] # NoCall) =>
            /\ BothAccepted
            /\ call[2].f = "ShiftImmUnpred" /\ call[2].m = "lsl"
            /\ SubRegSizeInBits(call[2].size) = D \div 2
            /\ call[2].imm = c.imm
            /\ SplitFields(c.f, Word(1)) = SplitFields(call[2].f, stream[2][1])

\* ushllt to 64-bit elements has shifted by 31, and lsl on 32-bit elements
\* by 31 shows the same three fields.
C27_Witness ==
  /\ call[1].f = "ShiftLeftLong" /\ call[1].m = "ushllt"
  /\ call[1].size = i64Bit /\ call[1].imm = 31
  /\ call[2].f = "ShiftImmUnpred" /\ BothAccepted
  /\ SplitFields("ShiftLeftLong", Word(1)) = <<\b01, \b11, \b111>>
  /\ SplitFields("ShiftImmUnpred", stream[2][1]) = <<\b01, \b11, \b111>>

\* C28: the five copies of the shift splitter (predicated shift,
\* unpredicated shift, shift-and-insert, shift-right-and-accumulate,
\* shift-right-narrow) agree: for the same element size, direction and
\* shift, on the sizes and directions each one supports, they accept or
\* abort identically and compute the same (tszh, tszl, imm3).  Two calls
\* that were both made and one of which aborted would disagree.
C28_SplittersAgree ==
  (/\ call[1].f \in SplitterForms /\ call[2].f \in SplitterForms
   /\ call[1].size = call[2].size /\ call[1].imm = call[2].imm
   /\ IsLeft(call[1]) = IsLeft(call[2])
   /\ call[1].size \in ShiftSizes(call[1]) \cap ShiftSizes(call[2]))
    => /\ BothAccepted
       /\ SplitFields(call[1].f, Word(1)) = SplitFields(call[2].f, stream[2][1])

\* A narrowing shift and a predicated shift, both right by 5 on 16-bit
\* elements, were accepted with the same three fields.
C28_Witness ==
  /\ call[1].f = "ShiftRightNarrow" /\ call[1].m = "uqrshrnt"
  /\ call[2].f = "ShiftImmPred"
  /\ call[1].size = i16Bit /\ call[1].imm = 5
  /\ BothAccepted
  /\ SplitFields("ShiftRightNarrow", Word(1)) = <<\b00, \b11, \b011>>
  /\ SplitFields("ShiftImmPred", stream[2][1]) = <<\b00, \b11, \b011>>

\* C29: for each of scvtf, ucvtf, fcvtzs, fcvtzu the accepted (source size,
\* destination size) pairs map one-to-one to (opc at bits 23:22, opc2 at
\* bits 18:17), so two different accepted size pairs never give the same
\* word for the same registers; scvtf/ucvtf accept a 16-bit source only
\* with a 16-bit destination, and fcvtzs/fcvtzu accept a 16-bit destination
\* only with a 16-bit source.
C29_ConvertInjective ==
  /\ \A e \in Emitters :
       call[e].f = "Convert" =>
         LET dst == call[e].size
             src == call[e].imm
         IN /\ (call[e].m \in {"scvtf", "ucvtf"} /\ src = i16Bit /\ dst # i16Bit)
                 => Rejected(e)
            /\ (call[e].m \in {"fcvtzs", "fcvtzu"} /\ dst = i16Bit /\ src # i16Bit)
                 => Rejected(e)
  /\ (/\ call[1].f = "Convert" /\ call[2].f = "Convert" /\ BothAccepted
      /\ call[1].m = call[2].m /\ call[1].z = call[2].z /\ call[1].p = call[2].p
      /\ <<call[1].imm, call[1].size>> # <<call[2].imm, call[2].size>>)
       => /\ <<Field(Word(1), 23, 22), Field(Word(1), 18, 17)>>
               # <<Field(stream[2][1], 23, 22), Field(stream[2][1], 18, 17)>>
          /\ Word(1) # stream[2][1]

\* scvtf from 64-bit to 32-bit and from 64-bit to 64-bit share opc and
\* differ in opc2.
C29_Witness ==
  /\ call[1].f = "Convert" /\ call[1].m = "scvtf" /\ call[2].f = "Convert"
  /\ call[1].imm = i64Bit /\ call[1].size = i32Bit
  /\ call[2].imm = i64Bit /\ call[2].size = i64Bit
  /\ BothAccepted
  /\ Field(Word(1), 23, 22) = \b11 /\ Field(Word(1), 18, 17) = \b10
  /\ Field(stream[2][1], 23, 22) = \b11 /\ Field(stream[2][1], 18, 17) = \b11

\* C30: mnemonics that share one bitfield primitive never collide: for
\* identical operands the fifteen predicate logical mnemonics emit pairwise
\* different words, and so do the sixteen integer vector compares (the six
\* plain and the ten wide ones).
C30_NoCollision ==
  LET same == /\ call[1].size = call[2].size /\ call[1].z = call[2].z
              /\ call[1].p = call[2].p
  IN /\ (/\ call[1].f = "PredicateLogical" /\ call[2].f = "PredicateLogical"
         /\ call[1].m \in PredicateLogicalForms
         /\ call[2].m \in PredicateLogicalForms
         /\ call[1].m # call[2].m /\ same /\ BothAccepted)
          => Word(1) # stream[2][1]
     /\ (/\ <<call[1].f, call[1].m>> \in VectorCompares
         /\ <<call[2].f, call[2].m>> \in VectorCompares
         /\ call[1].m # call[2].m /\ same /\ BothAccepted)
          => Word(1) # stream[2][1]

\* cmphs and cmpge_wide on the same operands were both accepted; their
\* words differ in bit 14 alone.
C30_Witness ==
  /\ call[1].f = "IntegerCompare" /\ call[1].m = "cmphs"
  /\ call[2].f = "IntegerCompareWide" /\ call[2].m = "cmpge_wide"
  /\ call[1].size = call[2].size /\ call[1].z = call[2].z
  /\ call[1].p = call[2].p
  /\ BothAccepted
  /\ stream[2][1] = Word(1) \cup {14} /\ 14 \notin Word(1)

====
